---- MODULE Spec2Model ----
(***************************************************************************)
(* BabelGopher: the speech pipeline of apps/web (useSTT, useTranslation,   *)
(* useTTS, useLiveKit and useConferenceOrchestrator) and the token         *)
(* endpoint of apps/server, as state machines.                             *)
(*                                                                         *)
(* The browser runs every handler (recognizer callback, timer, promise     *)
(* continuation, React effect) to completion before the next one, so each  *)
(* handler is one action; an await splits a handler into the actions       *)
(* before and after it.  The platform capabilities (SpeechRecognition,     *)
(* Translator, speechSynthesis) are the environment: their events and      *)
(* outcomes are chosen nondeterministically.                               *)
(*                                                                         *)
(* One module holds several specifications over the same variables, one    *)
(* per hook or path of a hook (SpecSTT, SpecFailing, SpecSeg,              *)
(* SpecTranslation, SpecTTS, SpecOrch, SpecEcho, SpecPartials, SpecRemote, *)
(* SpecInbound, SpecQueue, SpecTtsOff, SpecServer, SpecEchoGuard,          *)
(* SpecEchoHistory, SpecDedupe, SpecCoord, SpecTeardown, SpecLiveKit); a   *)
(* specification leaves the variables of the other hooks unchanged.        *)
(***************************************************************************)
EXTENDS Integers, Sequences, FiniteSets, TLC

VARIABLES
    \* ---- useSTT: refs and state of the hook
    activeTranscriptions,    \* activeTranscriptionsRef: participantId -> recognizer
    isRestarting,            \* isRestartingRef: participantId -> BOOLEAN
    restartFailCount,        \* restartFailCountRef: participantId -> Nat
    hasError,                \* hasErrorRef: participantId -> BOOLEAN
    lastError,               \* lastErrorRef: participantId -> error code or "null"
    isRecognitionRunning,    \* isRecognitionRunningRef: participantId -> BOOLEAN
    isTranscribing,          \* useState
    transcriptionError,      \* useState
    isSTTAvailable,          \* useState, set by the mount effect
    \* ---- the platform's recognizers and timers
    recognizers,             \* instance -> [owner, phase]
    restartTimers,           \* pending 250 ms cooldown timers, in firing order
    \* ---- observation of calls made by the last handler
    observed,                \* the last handler run and its recognizer.start() call, if any
    stopRequested,           \* participantId -> [req: stopTranscription called and not
                             \*   started since, r: the recognizer it stopped (0: none)]
    \* ---- useSTT: segmentation
    segObjs,                 \* the segment objects: object -> fields
    segmentRef,              \* segmentRef: participantId -> segment object
    silenceTimers,           \* pending silence timers (window.setTimeout)
    partials,                \* useState: the open segments' partial views
    transcriptions,          \* useState: the closed segments' records
    nResults,                \* recognition events delivered so far
    \* ---- the clock (Date.now(), in ms)
    now,
    \* ---- useConferenceOrchestrator: React state, as last set
    subtitles,               \* the subtitle list of the store (SUBTITLES_SET)
    isTtsSpeaking,           \* useTTS: isSpeaking
    participantSpeaking,     \* globalParticipants: remote speaker -> isSpeaking
    isTtsEnabled,            \* settings
    isTTSAvailable,          \* useTTS
    listeningMode,           \* settings.listeningMode
    rendered,                \* the state the last render and its effects saw
    \* ---- useConferenceOrchestrator: refs
    subtitlesRef,            \* subtitlesRef.current
    processedIdsRef,         \* processedIdsRef: dedupe keys in insertion order
    lastTtsEndAtRef,         \* lastTtsEndAtRef.current
    lastTtsHistoryRef,       \* lastTtsHistoryRef: [norm, at]
    partialTranslateTimerRef,\* subtitle id -> text captured by the pending timer
    partialLastTextRef,      \* subtitle id -> last text scheduled
    pendingRemoteTtsRef,     \* speaker -> queue of translated texts
    prevSpeakingMapRef,      \* speaker -> isSpeaking at the last flush effect
    remoteTtsTailTimerRef,   \* speakers with a pending 400 ms tail timer
    \* ---- useConferenceOrchestrator: asynchronous work in flight
    finalRuns,               \* processTranscription calls suspended at an await
    partialRuns,             \* debounced partial translations awaiting translateText
    remoteRuns,              \* onData handlers awaiting translateText
    speakCalls,              \* speak() calls not yet settled, in call order
    \* ---- what the orchestrator has sent out
    published,               \* payloads given to publishData
    translateCalls,          \* translateText calls made: [path, key, text]
    spoken,                  \* texts given to speak()
    finalizedIds,            \* subtitle ids that have been in the list finalized
    \* ---- the speech side of the orchestrator's environment
    segmentsClosed,          \* segments the recognition hook has closed
    nPartials,               \* partial views published so far
    nMessages,               \* data messages received so far
    \* ---- useTranslation
    translatorsRef,          \* translatorsRef: pair key -> Translator instance
    isTranslationAvailable,  \* useState
    translationError,        \* useState
    isTranslating,           \* useState
    calls,                   \* translateText / preloadTranslator invocations
    created,                 \* Translator instances created: instance -> pair key
    teardown,                \* the unmount cleanup: whether it ran, and the
                             \*   instances it called destroy() on
    \* ---- useTTS
    ttsError,                \* useState
    queuedRef,               \* queuedRef.current: the utterance queued, or null
    ttsCalls,                \* useTTS.speak invocations
    \* ---- apps/server: the token endpoint
    frontendURL,             \* the origin the handler was constructed with
    inflight,                \* requests sent and not yet served
    served,                  \* the exchanges served: request and response
    \* ---- observation of the echo guard and of the dedupe set
    echoVerdict,             \* the last isLikelyTtsEcho call and what it returned
    noted,                   \* every noteTtsUtterance call: normalized text and time
    dedupeKey,               \* the dedupe key of the last record handled
    \* ---- useConferenceOrchestrator: the control of recognition
    coord,                   \* what the last render saw of connection, mute and
                             \*   recognition, localParticipantIdRef, and the
                             \*   calls made by the last handler
    \* ---- useLiveKit: the connection to the room
    lk                       \* roomRef, room and isConnecting, the position of
                             \*   the connect call in flight and what it has done

(***************************************************************************)
(* Bounds of the model and constants of the program.                       *)
(***************************************************************************)
Participants == {"p1"}

\* recognizer instances created in one run
MaxRec == 2

\* handler runs of the coordinator
MaxCoordSteps == 6

\* connect() calls of the application
MaxConnectCalls == 2

\* thrown restarts the environment produces for one participant
MaxFailCount == 4

\* useSTT.ts:334  failCount >= 3
RestartFailLimit == 3

RecIds == 1..MaxRec

\* recognition events delivered in one run
MaxResults == 3

\* the clock stops here
MaxTime == 1400

\* useSTT.ts:101
silenceMs == 500

\* the pauses between two handlers, in ms
TickSteps == {400, 500}

\* transcripts the recognizer reports: text and blank text
Transcripts == { <<"h", "i">>, <<" ">> }

ErrorCodes == {"no-speech", "audio-capture", "not-allowed"}

(***************************************************************************)
(* A JavaScript Map is a function whose domain is the set of keys it has.  *)
(***************************************************************************)
EmptyMap == [k \in {} |-> FALSE]

\* a lookup that never finds the key
HasNever(m, k) == FALSE

\* m.has(k)
Has(m, k) == k \in DOMAIN m

\* m.get(k), with d standing for undefined
Get(m, k, d) == IF k \in DOMAIN m THEN m[k] ELSE d

Put(m, k, v) == [x \in (DOMAIN m) \cup {k} |-> IF x = k THEN v ELSE m[x]]

Del(m, k) == [x \in (DOMAIN m) \ {k} |-> m[x]]

\* ev: the handler; r: its recognizer (0: none); start: the outcome of the
\* recognizer.start() call it made ("none": it made no call); settled: how
\* the promise of a startLocalTranscription call settled: the function's
\* try/catch (useSTT.ts:124, 411-418) catches every error and does not
\* rethrow
Obs(ev, r, start) ==
    [ev |-> ev, r |-> r, start |-> start,
     settled |-> IF ev = "start" THEN "resolved" ELSE "none"]

sttVars == <<activeTranscriptions, isRestarting, restartFailCount, hasError,
             lastError, isRecognitionRunning, isTranscribing,
             transcriptionError, isSTTAvailable, recognizers, restartTimers,
             observed, stopRequested>>

segVars == <<segObjs, segmentRef, silenceTimers, partials, transcriptions,
             nResults>>

orchVars == <<subtitles, isTtsSpeaking, participantSpeaking, isTtsEnabled,
              isTTSAvailable, listeningMode, rendered, subtitlesRef,
              processedIdsRef, lastTtsEndAtRef, lastTtsHistoryRef,
              partialTranslateTimerRef, partialLastTextRef,
              pendingRemoteTtsRef, prevSpeakingMapRef, remoteTtsTailTimerRef,
              finalRuns, partialRuns, remoteRuns, speakCalls, published,
              translateCalls, spoken, finalizedIds, segmentsClosed, nPartials,
              nMessages>>

trVars == <<translatorsRef, translationError, isTranslating, calls, created,
           teardown>>

ttsVars == <<ttsError, queuedRef, ttsCalls>>

srvVars == <<frontendURL, inflight, served>>

utilVars == <<echoVerdict, noted, dedupeKey>>

coordVars == <<coord>>

lkVars == <<lk>>

vars == <<sttVars, segVars, now, orchVars, isTranslationAvailable, trVars,
          ttsVars, srvVars, utilVars, coordVars, lkVars>>

(***************************************************************************)
(* Strings are sequences of characters.                                    *)
(***************************************************************************)
IsSpace(c) == c = " "

RECURSIVE TrimStart(_)
TrimStart(s) == IF s # <<>> /\ IsSpace(Head(s)) THEN TrimStart(Tail(s)) ELSE s

RECURSIVE TrimEnd(_)
TrimEnd(s) == IF s # <<>> /\ IsSpace(s[Len(s)])
              THEN TrimEnd(SubSeq(s, 1, Len(s) - 1)) ELSE s

\* String.prototype.trim
Trim(s) == TrimEnd(TrimStart(s))

(***************************************************************************)
(* The recognizer, a platform object.  A session is open from a successful *)
(* start() until its end event; stop() and an error both lead to the end   *)
(* event.  start() on an open session throws (InvalidStateError); start()  *)
(* on an idle recognizer succeeds or throws, and a start() that threw may  *)
(* still be followed by an end event (the case restartFailCount counts) or *)
(* by none.                                                                *)
(***************************************************************************)
SessionOpen(r) == recognizers[r].phase \in {"starting", "listening", "ending"}

FreshRec == CHOOSE r \in RecIds : recognizers[r].phase = "unused" /\
                \A q \in RecIds : recognizers[q].phase = "unused" => r <= q

RecAvailable == \E r \in RecIds : recognizers[r].phase = "unused"

\* the phases a recognizer in phase ph may be in after start() threw
PhasesAfterThrow(ph) == IF ph \in {"idle", "unused"} THEN {"idle", "ending"} ELSE {ph}

\* recognition.stop()
PhaseAfterStop(ph) == IF ph \in {"starting", "listening"} THEN "ending" ELSE ph

(***************************************************************************)
(* Segment objects and the platform's timers.  A timer callback closes     *)
(* over the segment object it was armed for; an object lives as long as    *)
(* segmentRef or a pending timer refers to it.                             *)
(***************************************************************************)
SegOf(p) == segObjs[segmentRef[p]]

\* a clearTimeout that cancels nothing
ClearTimeoutOmitted(timers, id) == timers

\* clearTimeout(id)
ClearTimeout(timers, id) == {t \in timers : t.id # id}

FreshTimer(timers) == CHOOSE i \in 1..(Cardinality(timers) + 1) :
                         \A t \in timers : t.id # i

FreshObj(objs) == CHOOSE i \in 1..(Cardinality(DOMAIN objs) + 1) : i \notin DOMAIN objs

Collect(objs, ref, timers) ==
    LET live == {ref[q] : q \in DOMAIN ref} \cup {t.obj : t \in timers}
    IN [o \in (DOMAIN objs) \cap live |-> objs[o]]

\* a segment buffer whose id does not depend on the time
NewSegmentFixedId(p) == [bufferText |-> <<>>, lastInterim |-> <<>>,
                         lastActivityAt |-> now,
                         segmentId |-> [p |-> p, at |-> 0], timer |-> 0,
                         finals |-> <<>>]

\* a new segment buffer                     useSTT.ts:166-171, 247-252
\* finals: the transcripts of the final events the segment has received, in
\* arrival order (history, not read by the program)
NewSegment(p) == [bufferText |-> <<>>, lastInterim |-> <<>>,
                  lastActivityAt |-> now,
                  segmentId |-> [p |-> p, at |-> now], timer |-> 0,
                  finals |-> <<>>]

InitSeg ==
    /\ segObjs = EmptyMap
    /\ segmentRef = EmptyMap
    /\ silenceTimers = {}
    /\ partials = <<>>
    /\ transcriptions = <<>>
    /\ nResults = 0

\* the mounted hook; the mount effect has set isSTTAvailable
STTMounted(available) ==
    /\ activeTranscriptions = EmptyMap
    /\ isRestarting = EmptyMap
    /\ restartFailCount = EmptyMap
    /\ hasError = EmptyMap
    /\ lastError = EmptyMap
    /\ isRecognitionRunning = EmptyMap
    /\ isTranscribing = FALSE
    /\ isSTTAvailable = available
    /\ transcriptionError = IF available THEN "null" ELSE "unavailable"
    /\ recognizers = [r \in RecIds |-> [owner |-> "none", phase |-> "unused"]]
    /\ restartTimers = <<>>
    /\ observed = Obs("init", 0, "none")
    /\ stopRequested = [p \in Participants |-> [req |-> FALSE, r |-> 0]]

InitSTT == \E available \in BOOLEAN : STTMounted(available)

(***************************************************************************)
(* startLocalTranscription(participantId)            useSTT.ts:118-421     *)
(***************************************************************************)
StartAlreadyActive(p) ==
    /\ Has(activeTranscriptions, p)
    /\ transcriptionError' = "null"
    /\ observed' = Obs("start", 0, "none")
    /\ UNCHANGED <<activeTranscriptions, isRestarting, restartFailCount,
                   hasError, lastError, isRecognitionRunning, isTranscribing,
                   isSTTAvailable, recognizers, restartTimers, stopRequested>>

StartUnavailable(p) ==
    /\ ~Has(activeTranscriptions, p)
    /\ ~isSTTAvailable
    /\ transcriptionError' = "unavailable"
    /\ observed' = Obs("start", 0, "none")
    /\ UNCHANGED <<activeTranscriptions, isRestarting, restartFailCount,
                   hasError, lastError, isRecognitionRunning, isTranscribing,
                   isSTTAvailable, recognizers, restartTimers, stopRequested>>

\* a catch that leaves the running flag set
RollBackOmitted(running, p) == Put(running, p, TRUE)

\* the catch around recognition.start()               useSTT.ts:397-400
RollBack(running, p) == Put(running, p, FALSE)

StartThrows(p) ==
    /\ ~Has(activeTranscriptions, p)
    /\ isSTTAvailable
    /\ RecAvailable
    /\ LET r == FreshRec IN
       /\ \E ph \in PhasesAfterThrow("idle") :
             recognizers' = [recognizers EXCEPT ![r] = [owner |-> p, phase |-> ph]]
       /\ isRecognitionRunning' = RollBack(Put(isRecognitionRunning, p, TRUE), p)
       /\ transcriptionError' = "start-failed"
       /\ observed' = Obs("start", r, "threw")
    /\ UNCHANGED <<activeTranscriptions, isRestarting, restartFailCount,
                   hasError, lastError, isTranscribing, isSTTAvailable,
                   restartTimers, stopRequested>>

StartRegisters(p) ==
    /\ ~Has(activeTranscriptions, p)
    /\ isSTTAvailable
    /\ RecAvailable
    /\ LET r == FreshRec IN
       /\ recognizers' = [recognizers EXCEPT ![r] = [owner |-> p, phase |-> "starting"]]
       /\ isRecognitionRunning' = Put(isRecognitionRunning, p, TRUE)
       /\ activeTranscriptions' = Put(activeTranscriptions, p, r)
       /\ observed' = Obs("start", r, "ok")
    /\ transcriptionError' = "null"
    /\ stopRequested' = [stopRequested EXCEPT ![p] = [req |-> FALSE, r |-> 0]]
    /\ UNCHANGED <<isRestarting, restartFailCount, hasError, lastError,
                   isTranscribing, isSTTAvailable, restartTimers>>

StartLocalTranscription(p) ==
    \/ StartAlreadyActive(p)
    \/ StartUnavailable(p)
    \/ StartThrows(p)
    \/ StartRegisters(p)

(***************************************************************************)
(* stopTranscription(participantId)                  useSTT.ts:426-462     *)
(***************************************************************************)
\* a stopTranscription that leaves the participant registered
UnregisterOmitted(active, p) == active

\* activeTranscriptionsRef.current.delete(participantId), before stop()
Unregister(active, p) == Del(active, p)

StopTranscription(p) ==
    /\ stopRequested' = [stopRequested EXCEPT
                          ![p] = [req |-> TRUE, r |-> Get(activeTranscriptions, p, 0)]]
    /\ observed' = Obs("stop", Get(activeTranscriptions, p, 0), "none")
    /\ IF Has(activeTranscriptions, p)
       THEN LET r == activeTranscriptions[p]
                timers == IF Has(segmentRef, p)
                          THEN ClearTimeout(silenceTimers, SegOf(p).timer)
                          ELSE silenceTimers
            IN
            /\ silenceTimers' = timers
            /\ segmentRef' = Del(segmentRef, p)
            /\ segObjs' = Collect(segObjs, segmentRef', timers)
            /\ activeTranscriptions' = Unregister(activeTranscriptions, p)
            /\ isRestarting' = Del(isRestarting, p)
            /\ restartFailCount' = Del(restartFailCount, p)
            /\ hasError' = Del(hasError, p)
            /\ isRecognitionRunning' = Del(isRecognitionRunning, p)
            /\ recognizers' = [recognizers EXCEPT
                                 ![r].phase = PhaseAfterStop(recognizers[r].phase)]
            /\ isTranscribing' = IF DOMAIN activeTranscriptions' = {}
                                 THEN FALSE ELSE isTranscribing
            /\ UNCHANGED <<lastError, transcriptionError, isSTTAvailable,
                           restartTimers>>
       ELSE UNCHANGED <<activeTranscriptions, isRestarting, restartFailCount,
                        hasError, lastError, isRecognitionRunning,
                        isTranscribing, transcriptionError, isSTTAvailable,
                        recognizers, restartTimers, segObjs, segmentRef,
                        silenceTimers>>

(***************************************************************************)
(* Recognizer callbacks, closed over participantId and recognition         *)
(***************************************************************************)
\* onStart                                            useSTT.ts:273-280
RecOnStart(r) ==
    /\ recognizers[r].phase = "starting"
    /\ LET p == recognizers[r].owner IN
       /\ hasError' = Put(hasError, p, FALSE)
       /\ lastError' = Put(lastError, p, "null")
       /\ isRecognitionRunning' = Put(isRecognitionRunning, p, TRUE)
    /\ isTranscribing' = TRUE
    /\ recognizers' = [recognizers EXCEPT ![r].phase = "listening"]
    /\ observed' = Obs("onStart", r, "none")
    /\ UNCHANGED <<activeTranscriptions, isRestarting, restartFailCount,
                   transcriptionError, isSTTAvailable, restartTimers,
                   stopRequested>>

\* onError                                            useSTT.ts:255-272
RecOnError(r, code) ==
    /\ recognizers[r].phase \in {"starting", "listening"}
    /\ LET p == recognizers[r].owner IN
       /\ hasError' = Put(hasError, p, TRUE)
       /\ lastError' = Put(lastError, p, code)
    /\ transcriptionError' = code
    /\ recognizers' = [recognizers EXCEPT ![r].phase = "ending"]
    /\ observed' = Obs("onError", r, "none")
    /\ UNCHANGED <<activeTranscriptions, isRestarting, restartFailCount,
                   isRecognitionRunning, isTranscribing, isSTTAvailable,
                   restartTimers, stopRequested>>

\* a classification that takes every error for a recoverable one
RecoverableAlways(code) == TRUE

\* useSTT.ts:266, 301
Recoverable(code) == code = "no-speech" \/ code = "audio-capture"

\* onEnd                                              useSTT.ts:281-389
RecOnEnd(r) ==
    /\ recognizers[r].phase \in {"listening", "ending"}
    /\ recognizers' = [recognizers EXCEPT ![r].phase = "idle"]
    /\ observed' = Obs("onEnd", r, "none")
    /\ LET p == recognizers[r].owner
           hadError == Get(hasError, p, FALSE)
           lastErr == Get(lastError, p, "null")
       IN
       /\ isRecognitionRunning' = Put(isRecognitionRunning, p, FALSE)
       /\ IF ~Has(activeTranscriptions, p)
          THEN \* intentional stop
               /\ isTranscribing' = FALSE
               /\ UNCHANGED <<activeTranscriptions, isRestarting,
                              restartFailCount, hasError, lastError,
                              restartTimers>>
          ELSE IF hadError /\ ~Recoverable(lastErr)
          THEN \* non-recoverable error: clear tracking
               /\ activeTranscriptions' = Del(activeTranscriptions, p)
               /\ isRestarting' = Del(isRestarting, p)
               /\ restartFailCount' = Del(restartFailCount, p)
               /\ hasError' = Put(hasError, p, FALSE)
               /\ lastError' = Put(lastError, p, "null")
               /\ isTranscribing' = FALSE
               /\ UNCHANGED restartTimers
          ELSE /\ hasError' = IF hadError THEN Put(hasError, p, FALSE) ELSE hasError
               /\ lastError' = IF hadError THEN Put(lastError, p, "null") ELSE lastError
               /\ IF Get(isRestarting, p, FALSE)
                  THEN \* already restarting
                       UNCHANGED <<activeTranscriptions, isRestarting,
                                   restartFailCount, isTranscribing,
                                   restartTimers>>
                  ELSE IF Get(restartFailCount, p, 0) >= RestartFailLimit
                  THEN \* give up
                       /\ activeTranscriptions' = Del(activeTranscriptions, p)
                       /\ isRestarting' = Del(isRestarting, p)
                       /\ restartFailCount' = Del(restartFailCount, p)
                       /\ isTranscribing' = FALSE
                       /\ UNCHANGED restartTimers
                  ELSE \* schedule the cooldown timer
                       /\ isRestarting' = Put(isRestarting, p, TRUE)
                       /\ restartTimers' = Append(restartTimers, [p |-> p, r |-> r])
                       /\ UNCHANGED <<activeTranscriptions, restartFailCount,
                                      isTranscribing>>
    /\ UNCHANGED <<transcriptionError, isSTTAvailable, stopRequested>>

\* the cooldown timer of onEnd                        useSTT.ts:349-388
RestartAborted(p, r) ==
    /\ ~Has(activeTranscriptions, p)
    /\ isTranscribing' = FALSE
    /\ isRestarting' = Put(isRestarting, p, FALSE)
    /\ observed' = Obs("restartTimer", r, "none")
    /\ UNCHANGED <<restartFailCount, isRecognitionRunning, recognizers>>

RestartSkipped(p, r) ==
    /\ Has(activeTranscriptions, p)
    /\ Get(isRecognitionRunning, p, FALSE)
    /\ isRestarting' = Put(isRestarting, p, FALSE)
    /\ observed' = Obs("restartTimer", r, "none")
    /\ UNCHANGED <<restartFailCount, isRecognitionRunning, recognizers,
                   isTranscribing>>

RestartStarts(p, r) ==
    /\ Has(activeTranscriptions, p)
    /\ ~Get(isRecognitionRunning, p, FALSE)
    /\ recognizers[r].phase = "idle"
    /\ isRecognitionRunning' = Put(isRecognitionRunning, p, TRUE)
    /\ recognizers' = [recognizers EXCEPT ![r].phase = "starting"]
    /\ restartFailCount' = Put(restartFailCount, p, 0)
    /\ isTranscribing' = TRUE
    /\ isRestarting' = Put(isRestarting, p, FALSE)
    /\ observed' = Obs("restartTimer", r, "ok")

RestartThrows(p, r) ==
    /\ Has(activeTranscriptions, p)
    /\ ~Get(isRecognitionRunning, p, FALSE)
    /\ Get(restartFailCount, p, 0) < MaxFailCount
    /\ \E ph \in PhasesAfterThrow(recognizers[r].phase) :
          recognizers' = [recognizers EXCEPT ![r].phase = ph]
    /\ restartFailCount' = Put(restartFailCount, p, Get(restartFailCount, p, 0) + 1)
    /\ isTranscribing' = FALSE
    /\ isRecognitionRunning' = Put(isRecognitionRunning, p, FALSE)
    /\ isRestarting' = Put(isRestarting, p, FALSE)
    /\ observed' = Obs("restartTimer", r, "threw")

RestartTimerFire ==
    /\ restartTimers # <<>>
    /\ restartTimers' = Tail(restartTimers)
    /\ LET t == Head(restartTimers) IN
       \/ RestartAborted(t.p, t.r)
       \/ RestartSkipped(t.p, t.r)
       \/ RestartStarts(t.p, t.r)
       \/ RestartThrows(t.p, t.r)
    /\ UNCHANGED <<activeTranscriptions, hasError, lastError,
                   transcriptionError, isSTTAvailable, stopRequested>>

(***************************************************************************)
(* Segmentation: onResult and its silence timer       useSTT.ts:153-254    *)
(***************************************************************************)
\* a filter that keeps the partial view of the segment
OtherPartialsKept(ps, p, segmentId) == ps

\* prev.filter(...)                                    useSTT.ts:191-197, 237-243
OtherPartials(ps, p, segmentId) ==
    SelectSeq(ps, LAMBDA x : ~(x.segmentId = segmentId /\ x.participantId = p))

\* a buffer that takes in interim transcripts too
NextBufferAll(bufferText, transcript, isFinal) ==
    Trim(bufferText \o <<" ">> \o transcript)

\* seg.bufferText after an event                       useSTT.ts:176-186
NextBuffer(bufferText, transcript, isFinal) ==
    IF isFinal THEN Trim(bufferText \o <<" ">> \o transcript) ELSE bufferText

RecOnResult(r, transcript, isFinal) ==
    /\ recognizers[r].phase \in {"listening", "ending"}
    /\ nResults < MaxResults
    /\ nResults' = nResults + 1
    /\ LET p == recognizers[r].owner
           o == IF Has(segmentRef, p) THEN segmentRef[p] ELSE FreshObj(segObjs)
           seg == IF Has(segmentRef, p) THEN segObjs[o] ELSE NewSegment(p)
           buffer == NextBuffer(seg.bufferText, transcript, isFinal)
           interim == IF isFinal THEN <<>> ELSE transcript
           partialText == Trim(buffer \o <<" ">> \o interim)
           id == FreshTimer(silenceTimers)
           timers == ClearTimeout(silenceTimers, seg.timer) \cup
                       {[id |-> id, p |-> p, obj |-> o, deadline |-> now + silenceMs]}
           ref == Put(segmentRef, p, o)
       IN
       /\ segmentRef' = ref
       /\ silenceTimers' = timers
       /\ segObjs' = Collect(Put(segObjs, o,
                         [seg EXCEPT !.lastActivityAt = now,
                                     !.bufferText = buffer,
                                     !.lastInterim = interim,
                                     !.finals = IF isFinal
                                                THEN Append(@, transcript) ELSE @,
                                     !.timer = id]),
                         ref, timers)
       /\ partials' = IF Len(partialText) > 0
                      THEN Append(OtherPartials(partials, p, seg.segmentId),
                                  [participantId |-> p,
                                   segmentId |-> seg.segmentId,
                                   text |-> partialText, timestamp |-> now])
                      ELSE partials
    /\ UNCHANGED transcriptions

\* the silence timer's callback                       useSTT.ts:216-253
SilenceTimerFire(t) ==
    /\ t \in silenceTimers
    /\ t.deadline <= now
    /\ LET seg == segObjs[t.obj]
           finalText == Trim(seg.bufferText)
           o == FreshObj(segObjs)
           timers == silenceTimers \ {t}
           ref == Put(segmentRef, t.p, o)
       IN
       /\ transcriptions' =
             IF Len(finalText) > 0
             THEN Append(transcriptions,
                         [participantId |-> t.p, text |-> finalText,
                          timestamp |-> now, segmentId |-> seg.segmentId])
             ELSE transcriptions
       /\ partials' = OtherPartials(partials, t.p, seg.segmentId)
       /\ silenceTimers' = timers
       /\ segmentRef' = ref
       /\ segObjs' = Collect(Put(segObjs, o, NewSegment(t.p)), ref, timers)
    /\ UNCHANGED nResults

\* time passes: by d, or up to the first pending deadline if that is sooner
\* (a timer fires no later than its deadline)
NextDeadline(d) ==
    LET due == {t.deadline : t \in silenceTimers} \cup {now + d}
    IN CHOOSE x \in due : \A y \in due : x <= y

Tick(d) ==
    /\ now < MaxTime
    /\ \A t \in silenceTimers : now < t.deadline
    /\ now' = IF NextDeadline(d) <= MaxTime THEN NextDeadline(d) ELSE MaxTime

(***************************************************************************)
(* useConferenceOrchestrator                            part_005:214-1147  *)
(* Constants of the program and bounds of the model.                       *)
(***************************************************************************)
\* part_005:349
TTS_TAIL_MS == 2200

\* part_005:369, 382
EchoWindowMs == 10000

\* part_005:372  slice(-5)
EchoHistoryCap == 5

\* part_005:588
ProcessedIdsCap == 500

\* part_005:737  slice(-200)
SubtitleCap == 200

\* a threshold that lets two characters through
MinTextLengthLowered == 1 + 1

\* part_005:622  text.trim().length < 3
MinTextLength == 3

\* the local participant, whose speech is recognized
LocalId == "p1"

\* the language recognition runs in, and the listener's target language
sttLanguage == "en"

targetLanguage == "ko"

\* segments the recognition hook closes in one run
MaxSegments == 2

\* partial views the recognition hook publishes in one run
MaxPartials == 3

\* partial views published in one run while translations are spoken
MaxEchoPartials == 2

\* the time covered by one run of the debounced partial translation, in ms
MaxPartialsTime == 2200

\* partial views published in one run of the full local pipeline
MaxOrchPartials == 1

\* data messages received in one run
MaxMessages == 2

RemoteSpeakers == {"r1", "r2"}

\* the clock of the orchestrator stops here
MaxOrchTime == 4400

\* the pauses between two handlers of the orchestrator, in ms
OrchSteps == {2200}

TextHello ==
    <<"H", "e", "l", "l", "o", " ", "t", "h", "e", "r", "e", ",",
      " ", "h", "o", "w", " ", "a", "r", "e", " ", "y", "o", "u">>

TextHelloPlain ==
    <<"h", "e", "l", "l", "o", " ", "t", "h", "e", "r", "e", " ",
      "h", "o", "w", " ", "a", "r", "e", " ", "y", "o", "u">>

TextHi == <<"h", "i">>

\* what the Translator returns for any text
TextTranslated == TextHello

\* texts of finalized records, of partial views and of remote messages
FinalTexts == {TextHi, TextHelloPlain}

PartialTexts == {TextHi, TextHelloPlain}

\* the value of an absent field, and null
Undefined == <<"undefined">>

Null == <<"null">>

\* !t for a string field
Falsy(t) == t = Undefined \/ t = <<>>

Range(f) == {f[x] : x \in DOMAIN f}

Last(s) == s[Len(s)]

\* s.slice(-n)
LastN(s, n) == IF Len(s) > n THEN SubSeq(s, Len(s) - n + 1, Len(s)) ELSE s

(***************************************************************************)
(* normalizeText, noteTtsUtterance, isLikelyTtsEcho      part_005:353-394  *)
(***************************************************************************)
UpperCase == <<"A", "B", "C", "D", "E", "F", "G", "H", "I", "J", "K", "L", "M",
               "N", "O", "P", "Q", "R", "S", "T", "U", "V", "W", "X", "Y", "Z">>

LowerCase == <<"a", "b", "c", "d", "e", "f", "g", "h", "i", "j", "k", "l", "m",
               "n", "o", "p", "q", "r", "s", "t", "u", "v", "w", "x", "y", "z">>

\* toLowerCase, one character
ToLowerCase(c) ==
    IF \E i \in 1..Len(UpperCase) : UpperCase[i] = c
    THEN LowerCase[CHOOSE i \in 1..Len(UpperCase) : UpperCase[i] = c]
    ELSE c

\* \p{P} and \p{S}, for the characters that occur in the model's texts
IsPunctOrSymbol(c) == c \in {",", ".", "!", "?", ";", ":", "'", "-", "+", "$"}

RECURSIVE MapLower(_)
MapLower(s) == IF s = <<>> THEN <<>>
               ELSE <<ToLowerCase(Head(s))>> \o MapLower(Tail(s))

\* replace(/[\p{P}\p{S}]+/gu, " "): each run becomes one space
RECURSIVE ReplacePunct(_, _)
ReplacePunct(s, inRun) ==
    IF s = <<>> THEN <<>>
    ELSE IF IsPunctOrSymbol(Head(s))
         THEN (IF inRun THEN <<>> ELSE <<" ">>) \o ReplacePunct(Tail(s), TRUE)
         ELSE <<Head(s)>> \o ReplacePunct(Tail(s), FALSE)

\* replace(/\s+/g, " ")
RECURSIVE CollapseSpaces(_, _)
CollapseSpaces(s, inRun) ==
    IF s = <<>> THEN <<>>
    ELSE IF IsSpace(Head(s))
         THEN (IF inRun THEN <<>> ELSE <<" ">>) \o CollapseSpaces(Tail(s), TRUE)
         ELSE <<Head(s)>> \o CollapseSpaces(Tail(s), FALSE)

normalizeText(t) == Trim(CollapseSpaces(ReplacePunct(MapLower(t), FALSE), FALSE))

\* a.includes(b)
Includes(a, b) ==
    \E i \in 0..(Len(a) - Len(b)) : SubSeq(a, i + 1, i + Len(b)) = b

Min(x, y) == IF x <= y THEN x ELSE y

Max(x, y) == IF x >= y THEN x ELSE y

\* a history that is never pruned
noteTtsUtteranceKeepAll(history, t) ==
    Append(history, [norm |-> normalizeText(t), at |-> now])

\* the history after noteTtsUtterance(t)
noteTtsUtterance(history, t) ==
    LET pruned == SelectSeq(history, LAMBDA x : now - x.at < EchoWindowMs)
    IN LastN(Append(pruned, [norm |-> normalizeText(t), at |-> now]),
             EchoHistoryCap)

\* a length test that every pair passes
RatioAny(a, b) == TRUE

\* lenRatio >= 0.7, in integers
RatioAtLeast70(a, b) == 10 * Min(Len(a), Len(b)) >= 7 * Max(Len(a), Len(b))

isLikelyTtsEcho(history, recognized) ==
    LET a == normalizeText(recognized) IN
    /\ a # <<>>
    /\ \E i \in 1..Len(history) :
          LET b == history[i].norm IN
          /\ ~(now - history[i].at > EchoWindowMs)
          /\ \/ a = b
             \/ (Includes(a, b) \/ Includes(b, a)) /\ RatioAtLeast70(a, b)

(***************************************************************************)
(* Subtitles                                                               *)
(***************************************************************************)
\* `seg-${segmentId}`
SubId(segmentId) == [kind |-> "seg", speaker |-> segmentId.p, seg |-> segmentId.at]

\* `remote-${speakerId}-${segmentId}`
RemoteSubId(speakerId, segmentId) ==
    [kind |-> "remote", speaker |-> speakerId, seg |-> segmentId]

HasId(list, id) == \E i \in 1..Len(list) : list[i].id = id

\* list.findIndex(s => s.id === id), for a list that has the id
IndexOf(list, id) == CHOOSE i \in 1..Len(list) :
                        list[i].id = id /\ \A j \in 1..(i - 1) : list[j].id # id

WithoutId(list, id) == SelectSeq(list, LAMBDA s : s.id # id)

\* the filter of part_005:707-715 and 728-736
PruneStale(list, speaker, subId) ==
    SelectSeq(list, LAMBDA s :
        ~(s.isProcessing /\
          (\/ Falsy(s.originalTextPartial)
           \/ Len(Trim(s.originalTextPartial)) = 0
           \/ (s.speakerName = speaker /\ s.id # subId))))

\* the finalized entry for a record                    part_005:692-738
UpsertFinal(list, subId, speaker, text, translatedText) ==
    IF HasId(list, subId)
    THEN PruneStale([list EXCEPT ![IndexOf(list, subId)] =
                        [@ EXCEPT !.originalText = text,
                                  !.translatedText = translatedText,
                                  !.originalTextPartial = Undefined,
                                  !.translatedTextPartial = Undefined,
                                  !.isProcessing = FALSE]],
                    speaker, subId)
    ELSE LastN(PruneStale(Append(list,
                    [id |-> subId, speakerName |-> speaker,
                     originalText |-> text, translatedText |-> translatedText,
                     originalTextPartial |-> Undefined,
                     translatedTextPartial |-> Undefined,
                     isProcessing |-> FALSE]), speaker, subId), SubtitleCap)

\* the processing entry for a partial view             part_005:815-841
\* (a finalized entry is left alone by the caller)
UpsertPartial(list, subId, speaker, text) ==
    IF HasId(list, subId)
    THEN [list EXCEPT ![IndexOf(list, subId)] =
             [@ EXCEPT !.speakerName = speaker,
                       !.originalTextPartial = text,
                       !.isProcessing = TRUE]]
    ELSE LastN(Append(list,
             [id |-> subId, speakerName |-> speaker, originalText |-> <<>>,
              translatedText |-> <<>>, originalTextPartial |-> text,
              translatedTextPartial |-> Undefined, isProcessing |-> TRUE]),
             SubtitleCap)

\* the ids finalized in a list
FinalIds(list) == {list[i].id : i \in {j \in 1..Len(list) : ~list[j].isProcessing}}

(***************************************************************************)
(* The orchestrator's mutable state as one record, so that the steps of a  *)
(* handler compose; SetOrch makes a record the next state.                 *)
(***************************************************************************)
Orch ==
    [subtitles |-> subtitles, isTtsSpeaking |-> isTtsSpeaking,
     rendered |-> rendered, subtitlesRef |-> subtitlesRef,
     processedIdsRef |-> processedIdsRef, lastTtsEndAtRef |-> lastTtsEndAtRef,
     lastTtsHistoryRef |-> lastTtsHistoryRef,
     partialTranslateTimerRef |-> partialTranslateTimerRef,
     partialLastTextRef |-> partialLastTextRef,
     pendingRemoteTtsRef |-> pendingRemoteTtsRef,
     prevSpeakingMapRef |-> prevSpeakingMapRef,
     remoteTtsTailTimerRef |-> remoteTtsTailTimerRef,
     finalRuns |-> finalRuns, partialRuns |-> partialRuns,
     remoteRuns |-> remoteRuns, speakCalls |-> speakCalls,
     published |-> published, translateCalls |-> translateCalls,
     spoken |-> spoken]

SetOrch(o) ==
    /\ subtitles' = o.subtitles
    /\ isTtsSpeaking' = o.isTtsSpeaking
    /\ rendered' = o.rendered
    /\ subtitlesRef' = o.subtitlesRef
    /\ processedIdsRef' = o.processedIdsRef
    /\ lastTtsEndAtRef' = o.lastTtsEndAtRef
    /\ lastTtsHistoryRef' = o.lastTtsHistoryRef
    /\ partialTranslateTimerRef' = o.partialTranslateTimerRef
    /\ partialLastTextRef' = o.partialLastTextRef
    /\ pendingRemoteTtsRef' = o.pendingRemoteTtsRef
    /\ prevSpeakingMapRef' = o.prevSpeakingMapRef
    /\ remoteTtsTailTimerRef' = o.remoteTtsTailTimerRef
    /\ finalRuns' = o.finalRuns
    /\ partialRuns' = o.partialRuns
    /\ remoteRuns' = o.remoteRuns
    /\ speakCalls' = o.speakCalls
    /\ published' = o.published
    /\ translateCalls' = o.translateCalls
    /\ spoken' = o.spoken
    /\ finalizedIds' = finalizedIds \cup FinalIds(o.subtitles)
    /\ UNCHANGED <<isTtsEnabled, isTTSAvailable, listeningMode>>

\* the state a render hands to its effects
RenderOf(o) ==
    [subtitles |-> o.subtitles, isTtsSpeaking |-> o.isTtsSpeaking,
     transcriptions |-> transcriptions, partials |-> partials,
     participantSpeaking |-> participantSpeaking]

\* the mounted orchestrator; the mount effects have run at time 0
OrchMounted(ttsEnabled, mode) ==
    /\ subtitles = <<>>
    /\ isTtsSpeaking = FALSE
    /\ participantSpeaking = [p \in RemoteSpeakers |-> FALSE]
    /\ isTtsEnabled = ttsEnabled
    /\ listeningMode = mode
    /\ rendered = [isTtsSpeaking |-> FALSE, transcriptions |-> <<>>,
                   partials |-> <<>>, participantSpeaking |-> participantSpeaking]
    /\ subtitlesRef = <<>>
    /\ processedIdsRef = <<>>
    /\ lastTtsEndAtRef = 0
    /\ lastTtsHistoryRef = <<>>
    /\ partialTranslateTimerRef = EmptyMap
    /\ partialLastTextRef = EmptyMap
    /\ pendingRemoteTtsRef = EmptyMap
    /\ prevSpeakingMapRef = IF mode = "webrtc" THEN participantSpeaking ELSE EmptyMap
    /\ remoteTtsTailTimerRef = {}
    /\ finalRuns = {}
    /\ partialRuns = {}
    /\ remoteRuns = {}
    /\ speakCalls = <<>>
    /\ published = <<>>
    /\ translateCalls = <<>>
    /\ spoken = <<>>
    /\ finalizedIds = {}
    /\ segmentsClosed = 0
    /\ nPartials = 0
    /\ nMessages = 0

(***************************************************************************)
(* useTTS.speak, as the orchestrator sees it        useTTS.ts:102-136      *)
(* by: the speaker whose queue drain awaits the call, "none" if the caller *)
(* does not await it.                                                      *)
(***************************************************************************)
Speak(o, by, text) ==
    LET o1 == [o EXCEPT !.spoken = Append(@, text)] IN
    IF ~isTTSAvailable \/ Len(Trim(text)) = 0
    THEN o1
    ELSE [o1 EXCEPT !.isTtsSpeaking = TRUE,
                    !.speakCalls = Append(@, [by |-> by, text |-> text])]

(***************************************************************************)
(* Process new transcriptions                         part_005:571-798     *)
(***************************************************************************)
\* the gate of part_005:575 and 805
Gated(o, r) == r.isTtsSpeaking \/ now - o.lastTtsEndAtRef < TTS_TAIL_MS

DedupeKey(rec) == [p |-> rec.participantId, ts |-> rec.timestamp]

\* a set that never evicts
AddProcessedUncapped(ids, key) == Append(ids, key)

\* processedIdsRef after add(key) and the eviction of part_005:588-592
AddProcessed(ids, key) ==
    LET added == Append(ids, key)
    IN IF Len(added) > ProcessedIdsCap THEN Tail(added) ELSE added

\* a dedupe check that never finds the key
AlreadyProcessedNever(ids, key) == FALSE

\* processedIdsRef.current.has(dedupeKey)
AlreadyProcessed(ids, key) == key \in Range(ids)

\* upsert, broadcast and speak                         part_005:686-774
FinishFinal(o, run, translatedText) ==
    LET rec == run.rec
        o1 == [o EXCEPT
                 !.subtitles = UpsertFinal(run.snapshot, SubId(rec.segmentId),
                                           rec.participantId, rec.text,
                                           translatedText),
                 !.published = Append(@, [text |-> rec.text,
                                          sourceLang |-> run.sourceLang,
                                          segmentId |-> rec.segmentId,
                                          speakerId |-> rec.participantId,
                                          timestamp |-> rec.timestamp])]
    IN IF isTtsEnabled /\ translatedText # <<>> /\ isTTSAvailable
       THEN Speak([o1 EXCEPT !.lastTtsHistoryRef =
                                 noteTtsUtterance(@, translatedText)],
                  "none", translatedText)
       ELSE o1

\* the translation step                                part_005:658-684
TranslateFinal(o, run) ==
    IF run.sourceLang # targetLanguage /\ isTranslationAvailable
    THEN [o EXCEPT
            !.translateCalls = Append(@, [path |-> "final",
                                          key |-> DedupeKey(run.rec),
                                          text |-> run.rec.text]),
            !.finalRuns = @ \cup {[run EXCEPT !.pc = "translating"]}]
    ELSE FinishFinal(o, run, run.rec.text)

\* processTranscription up to its first await          part_005:594-656
\* detector: self.LanguageDetector exists
processTranscription(o, rec, snapshot, detector) ==
    LET run == [rec |-> rec, snapshot |-> snapshot, sourceLang |-> sttLanguage,
                pc |-> "detecting"]
        dropped == [o EXCEPT !.subtitles =
                       WithoutId(o.subtitlesRef, SubId(rec.segmentId))]
    IN IF isLikelyTtsEcho(o.lastTtsHistoryRef, rec.text) THEN dropped
       ELSE IF Len(Trim(rec.text)) < MinTextLength THEN dropped
       ELSE IF detector THEN [o EXCEPT !.finalRuns = @ \cup {run}]
       ELSE TranslateFinal(o, run)

\* the effect                                          part_005:571-592
ProcessEffect(o, r, detector) ==
    IF r.transcriptions = <<>> THEN o
    ELSE IF Gated(o, r) THEN o
    ELSE LET latest == Last(r.transcriptions)
             key == DedupeKey(latest)
         IN IF AlreadyProcessed(o.processedIdsRef, key) THEN o
            ELSE processTranscription(
                     [o EXCEPT !.processedIdsRef = AddProcessed(@, key)],
                     latest, r.subtitles, detector)

(***************************************************************************)
(* Handle partial updates                             part_005:801-914     *)
(***************************************************************************)
\* sourceLang !== "auto" && sourceLang.slice(0, 2) === targetLanguage
mirrorOnly == sttLanguage # "auto" /\ sttLanguage = targetLanguage

\* the debounce part of the effect                     part_005:844-905
SchedulePartial(o, subId, text) ==
    LET textToTranslate == Trim(text) IN
    IF textToTranslate = <<>> THEN o
    ELSE IF Get(o.partialLastTextRef, subId, Undefined) = textToTranslate THEN o
    ELSE [o EXCEPT !.partialLastTextRef = Put(@, subId, textToTranslate),
                   !.partialTranslateTimerRef = Put(@, subId, textToTranslate)]

PartialsEffect(o, r) ==
    IF r.partials = <<>> THEN o
    ELSE IF Gated(o, r) THEN o
    ELSE LET latest == Last(r.partials)
             subId == SubId(latest.segmentId)
             prev == o.subtitlesRef
         IN IF isLikelyTtsEcho(o.lastTtsHistoryRef, latest.text) THEN o
            ELSE IF HasId(prev, subId) /\ ~prev[IndexOf(prev, subId)].isProcessing
            THEN o
            ELSE SchedulePartial(
                     [o EXCEPT !.subtitles =
                         UpsertPartial(prev, subId, latest.participantId,
                                       latest.text)],
                     subId, latest.text)

\* the end of the debounced callback                   part_005:880-896
WritePartial(o, subId, text, translatedPartial) ==
    LET current == o.subtitlesRef IN
    IF Get(o.partialLastTextRef, subId, Undefined) # text THEN o
    ELSE IF ~HasId(current, subId) THEN o
    ELSE [o EXCEPT !.subtitles =
             [current EXCEPT ![IndexOf(current, subId)].translatedTextPartial =
                                 translatedPartial]]

(***************************************************************************)
(* Remote transcriptions and the remote TTS queue    part_005:917-1075     *)
(***************************************************************************)
\* one iteration of the drain loop                     part_005:1051-1057
DrainNext(o, p) ==
    LET queue == Get(o.pendingRemoteTtsRef, p, <<>>) IN
    IF queue = <<>> THEN o
    ELSE Speak([o EXCEPT !.pendingRemoteTtsRef = Put(@, p, Tail(queue)),
                         !.lastTtsHistoryRef = noteTtsUtterance(@, Head(queue))],
               p, Head(queue))

\* a delivery that ignores the listening mode and speaks at reception
DeliverRemoteSpoken(o, msg, translatedText) ==
    LET current == o.subtitlesRef
        subId == RemoteSubId(msg.speakerId, msg.segmentId)
        o1 == [o EXCEPT !.subtitles =
                  IF HasId(current, subId)
                  THEN [current EXCEPT ![IndexOf(current, subId)] =
                           [@ EXCEPT !.originalText = msg.text,
                                     !.translatedText = translatedText,
                                     !.originalTextPartial = Undefined,
                                     !.translatedTextPartial = Undefined,
                                     !.isProcessing = FALSE]]
                  ELSE LastN(Append(current,
                           [id |-> subId, speakerName |-> msg.speakerId,
                            originalText |-> msg.text,
                            translatedText |-> translatedText,
                            originalTextPartial |-> Undefined,
                            translatedTextPartial |-> Undefined,
                            isProcessing |-> FALSE]), SubtitleCap)]
    IN IF listeningMode \in {"tts_only", "webrtc"}
       THEN IF isTTSAvailable /\ translatedText # <<>>
            THEN Speak([o1 EXCEPT !.lastTtsHistoryRef =
                                      noteTtsUtterance(@, translatedText)],
                       "none", translatedText)
            ELSE o1
       ELSE IF listeningMode = "webrtc" /\ Len(Trim(translatedText)) > 0
       THEN [o1 EXCEPT !.pendingRemoteTtsRef =
                Put(@, msg.speakerId,
                    Append(Get(@, msg.speakerId, <<>>), translatedText))]
       ELSE o1

\* subtitle and delivery of a remote message           part_005:953-1000
DeliverRemote(o, msg, translatedText) ==
    LET current == o.subtitlesRef
        subId == RemoteSubId(msg.speakerId, msg.segmentId)
        o1 == [o EXCEPT !.subtitles =
                  IF HasId(current, subId)
                  THEN [current EXCEPT ![IndexOf(current, subId)] =
                           [@ EXCEPT !.originalText = msg.text,
                                     !.translatedText = translatedText,
                                     !.originalTextPartial = Undefined,
                                     !.translatedTextPartial = Undefined,
                                     !.isProcessing = FALSE]]
                  ELSE LastN(Append(current,
                           [id |-> subId, speakerName |-> msg.speakerId,
                            originalText |-> msg.text,
                            translatedText |-> translatedText,
                            originalTextPartial |-> Undefined,
                            translatedTextPartial |-> Undefined,
                            isProcessing |-> FALSE]), SubtitleCap)]
    IN IF listeningMode = "tts_only"
       THEN IF isTTSAvailable /\ translatedText # <<>>
            THEN Speak([o1 EXCEPT !.lastTtsHistoryRef =
                                      noteTtsUtterance(@, translatedText)],
                       "none", translatedText)
            ELSE o1
       ELSE IF listeningMode = "webrtc" /\ Len(Trim(translatedText)) > 0
       THEN [o1 EXCEPT !.pendingRemoteTtsRef =
                Put(@, msg.speakerId,
                    Append(Get(@, msg.speakerId, <<>>), translatedText))]
       ELSE o1

\* the flush effect                                    part_005:1025-1066
FlushEffect(o, r) ==
    IF listeningMode # "webrtc" THEN o
    ELSE [o EXCEPT
            !.remoteTtsTailTimerRef =
                @ \cup {p \in DOMAIN r.participantSpeaking :
                          /\ Get(o.prevSpeakingMapRef, p, FALSE)
                          /\ ~r.participantSpeaking[p]},
            !.prevSpeakingMapRef = r.participantSpeaking]

(***************************************************************************)
(* A render and its effects, in the order the hook declares them: the TTS  *)
(* end time (397-401), subtitlesRef (427-429), the transcriptions effect,  *)
(* the partials effect and the flush effect.  An effect runs when one of   *)
(* its dependencies differs from what the previous render saw.  A state    *)
(* setter called by an effect changes the state of the next render.        *)
(***************************************************************************)
Commit(detector) ==
    /\ \/ subtitles # subtitlesRef
       \/ rendered # [isTtsSpeaking |-> isTtsSpeaking,
                      transcriptions |-> transcriptions, partials |-> partials,
                      participantSpeaking |-> participantSpeaking]
    /\ LET r == RenderOf(Orch)
           speakingChanged == isTtsSpeaking # rendered.isTtsSpeaking
           o1 == [Orch EXCEPT
                    !.lastTtsEndAtRef =
                        IF speakingChanged /\ ~isTtsSpeaking THEN now ELSE @,
                    !.subtitlesRef = subtitles,
                    !.rendered = [isTtsSpeaking |-> isTtsSpeaking,
                                  transcriptions |-> transcriptions,
                                  partials |-> partials,
                                  participantSpeaking |-> participantSpeaking]]
           o2 == IF \/ transcriptions # rendered.transcriptions
                    \/ subtitles # subtitlesRef
                    \/ speakingChanged
                 THEN ProcessEffect(o1, r, detector) ELSE o1
           o3 == IF partials # rendered.partials \/ speakingChanged
                 THEN PartialsEffect(o2, r) ELSE o2
           o4 == IF participantSpeaking # rendered.participantSpeaking
                 THEN FlushEffect(o3, r) ELSE o3
       IN SetOrch(o4)
    /\ UNCHANGED <<participantSpeaking, segmentsClosed, nPartials, nMessages,
                   transcriptions, partials>>

\* LanguageDetector settles with a language           part_005:646-656
DetectResolves(run, lang) ==
    /\ run \in finalRuns
    /\ run.pc = "detecting"
    /\ SetOrch(TranslateFinal([Orch EXCEPT !.finalRuns = @ \ {run}],
                              [run EXCEPT !.sourceLang = lang]))
    /\ UNCHANGED <<participantSpeaking, segmentsClosed, nPartials, nMessages,
                   transcriptions, partials>>

\* what translateText resolves with for a text: the translation, or the
\* text itself after a failure                  useTranslation.ts:221, 230
Translated(text, outcome) == IF outcome = "translated" THEN TextTranslated ELSE text

\* the ways the promise of translateText can settle: with the translation,
\* with the text itself, with null, or rejected
Outcomes == {"translated", "original", "null", "throws"}

\* a translation step without fallback: nothing unless translated
FinalTranslationNoFallback(text, outcome) ==
    IF outcome = "translated" THEN TextTranslated ELSE <<>>

\* translatedText after the try/catch around translateText
\*                                                     part_005:632, 664-683
FinalTranslation(text, outcome) ==
    IF outcome = "throws" THEN text
    ELSE LET translated == IF outcome = "null" THEN Null
                           ELSE Translated(text, outcome)
         IN IF translated = Null \/ translated = <<>> THEN text ELSE translated

\* translateText settles for a finalized record        part_005:665-774
TranslateResolves(run, outcome) ==
    /\ run \in finalRuns
    /\ run.pc = "translating"
    /\ SetOrch(FinishFinal([Orch EXCEPT !.finalRuns = @ \ {run}], run,
                           FinalTranslation(run.rec.text, outcome)))
    /\ UNCHANGED <<participantSpeaking, segmentsClosed, nPartials, nMessages,
                   transcriptions, partials>>

\* the debounce timer of a partial fires               part_005:867-878
PartialTimerFire(subId) ==
    /\ Has(partialTranslateTimerRef, subId)
    /\ LET text == partialTranslateTimerRef[subId]
           o1 == [Orch EXCEPT !.partialTranslateTimerRef = Del(@, subId)]
       IN IF ~mirrorOnly /\ isTranslationAvailable
          THEN SetOrch([o1 EXCEPT
                   !.translateCalls = Append(@, [path |-> "partial",
                                                 key |-> subId, text |-> text]),
                   !.partialRuns = @ \cup {[subId |-> subId, text |-> text]}])
          ELSE SetOrch(WritePartial(o1, subId, text, text))
    /\ UNCHANGED <<participantSpeaking, segmentsClosed, nPartials, nMessages,
                   transcriptions, partials>>

\* translateText settles for a partial                 part_005:877-896
PartialResolves(run, outcome) ==
    /\ run \in partialRuns
    /\ SetOrch(WritePartial([Orch EXCEPT !.partialRuns = @ \ {run}],
                            run.subId, run.text, Translated(run.text, outcome)))
    /\ UNCHANGED <<participantSpeaking, segmentsClosed, nPartials, nMessages,
                   transcriptions, partials>>

\* a speak() call settles: setIsSpeaking(false), and the drain that awaited
\* it goes on                    useTTS.ts:128-134, part_005:1051-1057
SpeakEnds(i) ==
    /\ i \in 1..Len(speakCalls)
    /\ LET call == speakCalls[i]
           o1 == [Orch EXCEPT
                    !.speakCalls = SubSeq(@, 1, i - 1) \o SubSeq(@, i + 1, Len(@)),
                    !.isTtsSpeaking = FALSE]
       IN SetOrch(IF call.by = "none" THEN o1 ELSE DrainNext(o1, call.by))
    /\ UNCHANGED <<participantSpeaking, segmentsClosed, nPartials, nMessages,
                   transcriptions, partials>>

\* the tail timer of a remote speaker fires            part_005:1044-1059
TailTimerFire(p) ==
    /\ p \in remoteTtsTailTimerRef
    /\ LET o1 == [Orch EXCEPT !.remoteTtsTailTimerRef = @ \ {p}]
       IN SetOrch(IF Get(pendingRemoteTtsRef, p, <<>>) = <<>> THEN o1
                  ELSE IF ~isTTSAvailable \/ ~isTtsEnabled THEN o1
                  ELSE DrainNext(o1, p))
    /\ UNCHANGED <<participantSpeaking, segmentsClosed, nPartials, nMessages,
                   transcriptions, partials>>

\* onData, up to its await                             part_005:920-951
OnDataReceived(speakerId, text) ==
    /\ nMessages < MaxMessages
    /\ nMessages' = nMessages + 1
    /\ LET msg == [speakerId |-> speakerId, text |-> text,
                   segmentId |-> nMessages + 1]
       IN IF isTranslationAvailable
          THEN SetOrch([Orch EXCEPT
                   !.translateCalls = Append(@, [path |-> "remote",
                          key |-> RemoteSubId(speakerId, msg.segmentId),
                          text |-> text]),
                   !.remoteRuns = @ \cup {msg}])
          ELSE SetOrch(DeliverRemote(Orch, msg, text))
    /\ UNCHANGED <<participantSpeaking, segmentsClosed, nPartials,
                   transcriptions, partials>>

\* translateText settles for a remote message          part_005:943-1000
OnDataResolves(msg, outcome) ==
    /\ msg \in remoteRuns
    /\ SetOrch(DeliverRemote([Orch EXCEPT !.remoteRuns = @ \ {msg}], msg,
                             Translated(msg.text, outcome)))
    /\ UNCHANGED <<participantSpeaking, segmentsClosed, nPartials, nMessages,
                   transcriptions, partials>>

\* LiveKit reports that a remote participant started or stopped speaking
SpeakingChanges(p) ==
    /\ participantSpeaking' = [participantSpeaking EXCEPT ![p] = ~@]
    /\ UNCHANGED <<subtitles, isTtsSpeaking, isTtsEnabled, isTTSAvailable,
                   listeningMode, rendered, subtitlesRef, processedIdsRef,
                   lastTtsEndAtRef, lastTtsHistoryRef, partialTranslateTimerRef,
                   partialLastTextRef, pendingRemoteTtsRef, prevSpeakingMapRef,
                   remoteTtsTailTimerRef, finalRuns, partialRuns, remoteRuns,
                   speakCalls, published, translateCalls, spoken, finalizedIds,
                   segmentsClosed, nPartials, nMessages, transcriptions,
                   partials>>

(***************************************************************************)
(* What the recognition hook hands to the orchestrator: the partial views  *)
(* of the open segment and the record of a closed one.                     *)
(*                                            useSTT.ts:188-210, 216-253   *)
(***************************************************************************)
OpenSegment == [p |-> LocalId, at |-> segmentsClosed + 1]

PublishPartial(text) ==
    /\ nPartials < MaxPartials
    /\ nPartials' = nPartials + 1
    /\ partials' = Append(OtherPartials(partials, LocalId, OpenSegment),
                          [participantId |-> LocalId, segmentId |-> OpenSegment,
                           text |-> text, timestamp |-> now])
    /\ UNCHANGED <<subtitles, isTtsSpeaking, isTtsEnabled, isTTSAvailable,
                   listeningMode, rendered, subtitlesRef, processedIdsRef,
                   lastTtsEndAtRef, lastTtsHistoryRef, partialTranslateTimerRef,
                   partialLastTextRef, pendingRemoteTtsRef, prevSpeakingMapRef,
                   remoteTtsTailTimerRef, finalRuns, partialRuns, remoteRuns,
                   speakCalls, published, translateCalls, spoken, finalizedIds,
                   participantSpeaking, segmentsClosed, nMessages,
                   transcriptions>>

\* two segments of a participant close at least silenceMs apart, so their
\* records differ in timestamp
CloseSegment(text) ==
    /\ segmentsClosed < MaxSegments
    /\ \A i \in 1..Len(transcriptions) : transcriptions[i].timestamp # now
    /\ segmentsClosed' = segmentsClosed + 1
    /\ transcriptions' = Append(transcriptions,
                                [participantId |-> LocalId, text |-> text,
                                 timestamp |-> now, segmentId |-> OpenSegment])
    /\ partials' = OtherPartials(partials, LocalId, OpenSegment)
    /\ UNCHANGED <<subtitles, isTtsSpeaking, isTtsEnabled, isTTSAvailable,
                   listeningMode, rendered, subtitlesRef, processedIdsRef,
                   lastTtsEndAtRef, lastTtsHistoryRef, partialTranslateTimerRef,
                   partialLastTextRef, pendingRemoteTtsRef, prevSpeakingMapRef,
                   remoteTtsTailTimerRef, finalRuns, partialRuns, remoteRuns,
                   speakCalls, published, translateCalls, spoken, finalizedIds,
                   participantSpeaking, nPartials, nMessages>>

TickOrch(d) ==
    /\ now + d <= MaxOrchTime
    /\ now' = now + d

(***************************************************************************)
(* useTranslation                              useTranslation.ts:49-256    *)
(* calls: the invocations of translateText and preloadTranslator, each at  *)
(* the await it is suspended at.  A Translator instance is a number; 0 is  *)
(* the null createTranslator returns when it fails.                        *)
(***************************************************************************)
\* one retry more than the hook allows
maxRetriesRaised == 1 + 2

\* useTranslation.ts:170
maxRetries == 2

\* invocations in one run
MaxCalls == 3

CallIds == 1..MaxCalls

\* `${sourceLang}->${targetLang}`
PairKeys == {"en->ko", "auto->ko"}

\* texts handed to translateText: blank and not blank
CallTexts == {<<" ">>, TextHi}

NoCall == [kind |-> "unused", key |-> "none", text |-> <<>>, pc |-> "unused",
           translator |-> 0, attempt |-> 0, attempts |-> 0,
           result |-> Undefined, failed |-> FALSE]

TranslationMounted(available) ==
    /\ translatorsRef = EmptyMap
    /\ isTranslationAvailable = available
    /\ translationError = IF available THEN "null" ELSE "unavailable"
    /\ isTranslating = FALSE
    /\ calls = [i \in CallIds |-> NoCall]
    /\ created = EmptyMap
    /\ teardown = [done |-> FALSE, destroyed |-> {}]

InitTranslation == \E available \in BOOLEAN : TranslationMounted(available)

\* the next unused invocation
FreshCall(i) == calls[i].pc = "unused" /\ \A j \in 1..(i - 1) : calls[j].pc # "unused"

\* getTranslator up to its await: the cached instance, or a createTranslator
\* call                                          useTranslation.ts:83-100
getTranslator(call) ==
    IF Has(translatorsRef, call.key)
    THEN [call EXCEPT !.pc = "gotTranslator", !.translator = translatorsRef[call.key]]
    ELSE [call EXCEPT !.pc = "creating"]

\* translateText up to its first await          useTranslation.ts:130-159
TranslateTextCall(i, text, key) ==
    /\ FreshCall(i)
    /\ LET call == [NoCall EXCEPT !.kind = "translate", !.key = key, !.text = text]
       IN IF Len(Trim(text)) = 0 \/ ~isTranslationAvailable
          THEN /\ calls' = [calls EXCEPT ![i] = [call EXCEPT !.pc = "done",
                                                            !.result = Null]]
               /\ UNCHANGED <<isTranslating, translationError>>
          ELSE /\ calls' = [calls EXCEPT ![i] = getTranslator(call)]
               /\ isTranslating' = TRUE
               /\ translationError' = "null"
    /\ UNCHANGED <<translatorsRef, created, isTranslationAvailable, teardown>>

\* preloadTranslator up to its await           useTranslation.ts:111-116
PreloadTranslatorCall(i, key) ==
    /\ FreshCall(i)
    /\ calls' = [calls EXCEPT ![i] =
                    getTranslator([NoCall EXCEPT !.kind = "preload", !.key = key])]
    /\ UNCHANGED <<translatorsRef, created, isTranslationAvailable, teardown,
                   isTranslating, translationError>>

\* createTranslator settles, with an instance or with null; getTranslator
\* caches the instance                          useTranslation.ts:93-106
CreateResolves(i, ok) ==
    /\ calls[i].pc = "creating"
    /\ LET instance == Cardinality(DOMAIN created) + 1 IN
       IF ok
       THEN /\ created' = Put(created, instance, calls[i].key)
            /\ translatorsRef' = Put(translatorsRef, calls[i].key, instance)
            /\ calls' = [calls EXCEPT ![i].pc = "gotTranslator",
                                      ![i].translator = instance]
       ELSE /\ calls' = [calls EXCEPT ![i].pc = "gotTranslator"]
            /\ UNCHANGED <<created, translatorsRef>>
    /\ UNCHANGED <<isTranslationAvailable, teardown, isTranslating, translationError>>

\* the invocation goes on with the translator it got
\*                         useTranslation.ts:116-122, 159-174, 222-233
GotTranslator(i) ==
    /\ calls[i].pc = "gotTranslator"
    /\ IF calls[i].kind = "preload"
       THEN /\ calls' = [calls EXCEPT ![i].pc = "done"]
            /\ UNCHANGED <<isTranslating, translationError>>
       ELSE IF calls[i].translator = 0
       THEN /\ calls' = [calls EXCEPT ![i].pc = "done", ![i].failed = TRUE,
                                      ![i].result = calls[i].text]
            /\ translationError' = "create-failed"
            /\ isTranslating' = FALSE
       ELSE /\ calls' = [calls EXCEPT ![i].pc = "translating", ![i].attempts = 1]
            /\ UNCHANGED <<isTranslating, translationError>>
    /\ UNCHANGED <<translatorsRef, created, isTranslationAvailable, teardown>>

\* translator.translate settles: with a text, with the empty string, or by
\* throwing                                    useTranslation.ts:172-233
TranslateSettles(i, outcome) ==
    /\ calls[i].pc = "translating"
    /\ IF outcome = "text"
       THEN /\ calls' = [calls EXCEPT ![i].pc = "done",
                                      ![i].result = TextTranslated]
            /\ isTranslating' = FALSE
            /\ UNCHANGED translationError
       ELSE IF outcome = "throws" /\ calls[i].attempt < maxRetries
       THEN /\ calls' = [calls EXCEPT ![i].pc = "backoff"]
            /\ UNCHANGED <<isTranslating, translationError>>
       ELSE /\ calls' = [calls EXCEPT ![i].pc = "done", ![i].failed = TRUE,
                                      ![i].result = calls[i].text]
            /\ translationError' = "translation-failed"
            /\ isTranslating' = FALSE
    /\ UNCHANGED <<translatorsRef, created, isTranslationAvailable, teardown>>

\* the backoff timer fires and the loop tries again
\*                                             useTranslation.ts:172-191
BackoffEnds(i) ==
    /\ calls[i].pc = "backoff"
    /\ calls' = [calls EXCEPT ![i].pc = "translating",
                              ![i].attempt = @ + 1,
                              ![i].attempts = @ + 1]
    /\ UNCHANGED <<translatorsRef, created, isTranslationAvailable, teardown,
                   isTranslating, translationError>>

\* the cleanup of the mount effect: destroy() on every cached instance,
\* then clear()                                 useTranslation.ts:69-77
Unmount ==
    /\ ~teardown.done
    /\ teardown' = [done |-> TRUE,
                    destroyed |-> {translatorsRef[k] : k \in DOMAIN translatorsRef}]
    /\ translatorsRef' = EmptyMap
    /\ UNCHANGED <<created, calls, isTranslationAvailable, isTranslating,
                   translationError>>

(***************************************************************************)
(* useTTS and TTSService.speak          useTTS.ts:30-184, tts.ts:218-312   *)
(* ttsCalls: the invocations of useTTS.speak.  service is the state of the *)
(* promise TTSService.speak returned, hook the state of the promise        *)
(* useTTS.speak returned; continued: the caller's await has resumed.       *)
(***************************************************************************)
\* invocations in one run
MaxTtsCalls == 3

TtsCallIds == 1..MaxTtsCalls

\* the events an utterance ends with: onend, or onerror with a code
SpeechEvents == {"end", "interrupted", "canceled", "audio-hardware",
                 "audio-busy", "synthesis-failed"}

\* texts handed to speak: blank and not blank
SpeakTexts == {<<" ">>, TextHi}

\* who calls speak: the local pipeline and onData (not awaited), the queue
\* drain (awaited)              part_005:769, 987, 1056
Callers == {"pipeline", "drain"}

NoTtsCall == [pc |-> "unused", text |-> <<>>, caller |-> "none",
              event |-> "none", service |-> "none", hook |-> "none",
              continued |-> FALSE]

\* the mounted hook; the mount effect has set isTTSAvailable
TTSMounted(available) ==
    /\ isTTSAvailable = available
    /\ ttsError = IF available THEN "null" ELSE "unavailable"
    /\ queuedRef = Null
    /\ ttsCalls = [i \in TtsCallIds |-> NoTtsCall]

\* the next unused invocation
FreshTtsCall(i) ==
    ttsCalls[i].pc = "unused" /\ \A j \in 1..(i - 1) : ttsCalls[j].pc # "unused"

\* a handler that rejects on every error event
UtteranceSettlesStrict(event) == IF event = "end" THEN "resolved" ELSE "rejected"

\* utterance.onend and utterance.onerror              tts.ts:278-304
UtteranceSettles(event) ==
    IF event = "end" THEN "resolved"
    ELSE IF event = "interrupted" \/ event = "canceled" THEN "resolved"
    ELSE IF event = "audio-hardware" \/ event = "audio-busy" THEN "resolved"
    ELSE "rejected"

\* TTSService.speak up to the utterance               tts.ts:218-262
\* initialized: TTSService.isInitialized; voice: findBestVoice found one
ServiceSpeak(text, initialized, voice) ==
    IF ~initialized THEN "rejected"
    ELSE IF Len(Trim(text)) = 0 THEN "resolved"
    ELSE IF ~voice THEN "rejected"
    ELSE "pending"

\* useTTS.speak up to its await                       useTTS.ts:102-125
speak(call, initialized, voice) ==
    [call EXCEPT !.pc = "awaiting",
                 !.service = ServiceSpeak(call.text, initialized, voice)]

\* speak(text, lang) is called
SpeakCalled(i, text, caller, initialized, voice) ==
    /\ FreshTtsCall(i)
    /\ LET call == [NoTtsCall EXCEPT !.text = text, !.caller = caller] IN
       IF ~isTTSAvailable
       THEN /\ queuedRef' = text
            /\ ttsCalls' = [ttsCalls EXCEPT ![i] =
                               [call EXCEPT !.pc = "done", !.hook = "resolved",
                                            !.continued = TRUE]]
            /\ UNCHANGED <<isTtsSpeaking, ttsError>>
       ELSE IF Len(Trim(text)) = 0
       THEN /\ ttsCalls' = [ttsCalls EXCEPT ![i] =
                               [call EXCEPT !.pc = "done", !.hook = "resolved",
                                            !.continued = TRUE]]
            /\ UNCHANGED <<isTtsSpeaking, ttsError, queuedRef>>
       ELSE /\ ttsCalls' = [ttsCalls EXCEPT ![i] = speak(call, initialized, voice)]
            /\ isTtsSpeaking' = TRUE
            /\ ttsError' = "null"
            /\ UNCHANGED queuedRef
    /\ UNCHANGED isTTSAvailable

\* the utterance of a call ends: onend or onerror     tts.ts:278-304
UtteranceEnds(i, event) ==
    /\ ttsCalls[i].pc = "awaiting"
    /\ ttsCalls[i].service = "pending"
    /\ ttsCalls' = [ttsCalls EXCEPT ![i].event = event,
                                    ![i].service = UtteranceSettles(event)]
    /\ UNCHANGED <<isTtsSpeaking, ttsError, queuedRef, isTTSAvailable>>

\* useTTS.speak after its await: catch and finally    useTTS.ts:125-134
SpeakSettles(i) ==
    /\ ttsCalls[i].pc = "awaiting"
    /\ ttsCalls[i].service \in {"resolved", "rejected"}
    /\ ttsCalls' = [ttsCalls EXCEPT ![i].pc = "done", ![i].hook = "resolved",
                                    ![i].continued = TRUE]
    /\ ttsError' = IF ttsCalls[i].service = "rejected"
                   THEN "speech-failed" ELSE ttsError
    /\ isTtsSpeaking' = FALSE
    /\ UNCHANGED <<queuedRef, isTTSAvailable>>

\* the voices load: setIsTTSAvailable(true), and the flush effect speaks the
\* queued utterance                      useTTS.ts:56-60, 68-72, 168-175
BecomesAvailable(initialized, voice) ==
    /\ ~isTTSAvailable
    /\ isTTSAvailable' = TRUE
    /\ IF queuedRef = Null
       THEN /\ ttsError' = "null"
            /\ UNCHANGED <<queuedRef, ttsCalls, isTtsSpeaking>>
       ELSE \E i \in TtsCallIds :
               /\ FreshTtsCall(i)
               /\ queuedRef' = Null
               /\ ttsCalls' = [ttsCalls EXCEPT ![i] =
                      speak([NoTtsCall EXCEPT !.text = queuedRef,
                                              !.caller = "flush"],
                            initialized, voice)]
               /\ isTtsSpeaking' = TRUE
               /\ ttsError' = "null"

(***************************************************************************)
(* The token endpoint of apps/server     handler/auth_handler.go:28-99     *)
(* A request is its method and its body; a body is malformed (the decoder  *)
(* fails), the JSON value null, or an object whose absent string fields    *)
(* decode to "".  livekit.GenerateToken is a library call: it returns a    *)
(* JWT, which is not empty, or an error.                                   *)
(***************************************************************************)
\* requests handled in one run
MaxRequests == 2

Methods == {"GET", "POST", "OPTIONS", "DELETE"}

Identities == {"", "alice"}

RoomNames == {"", "lobby"}

\* the zero value of AuthRequest                       auth_handler.go:11-14
ZeroAuthRequest == [user_identity |-> "", room_name |-> ""]

Bodies ==
    [kind : {"malformed", "null"}, user_identity : {""}, room_name : {""}]
       \cup [kind : {"object"}, user_identity : Identities, room_name : RoomNames]

Requests == [method : Methods, body : Bodies]

ServerStarted(origin) == frontendURL = origin /\ inflight = {} /\ served = <<>>

\* json.NewDecoder(r.Body).Decode(&req)                auth_handler.go:57-58
Decode(body) ==
    IF body.kind = "malformed" THEN [err |-> "syntax error", req |-> ZeroAuthRequest]
    ELSE IF body.kind = "null" THEN [err |-> "", req |-> ZeroAuthRequest]
    ELSE [err |-> "",
          req |-> [user_identity |-> body.user_identity,
                   room_name |-> body.room_name]]

\* the headers set on every response                   auth_handler.go:32-39
Headers(origin) ==
    [AccessControlAllowOrigin |-> IF origin = "" THEN "*" ELSE origin,
     AccessControlAllowMethods |-> "POST, OPTIONS",
     AccessControlAllowHeaders |-> "Content-Type",
     ContentType |-> "application/json"]

\* a validation that checks user_identity only
ValidateIdentityOnly(req) ==
    IF req.user_identity = "" THEN "missing required field: user_identity"
    ELSE ""

\* the required fields, in the order tested            auth_handler.go:67-81
Validate(req) ==
    IF req.user_identity = "" THEN "missing required field: user_identity"
    ELSE IF req.room_name = "" THEN "missing required field: room_name"
    ELSE ""

\* livekit.GenerateToken              token_generator.go:10-27
GenerateToken(roomName, identity, signed) ==
    IF signed THEN [token |-> "jwt", err |-> ""]
    ELSE [token |-> "", err |-> "keys missing"]

Respond(origin, status, error, token) ==
    [status |-> status, headers |-> Headers(origin), error |-> error,
     token |-> token]

\* the handler function                                auth_handler.go:29-98
AuthLiveKitTokenHandler(origin, r, signed) ==
    IF r.method = "OPTIONS" THEN Respond(origin, 200, "", "")
    ELSE IF r.method # "POST"
    THEN Respond(origin, 405, "method not allowed, use POST", "")
    ELSE LET decoded == Decode(r.body)
             req == decoded.req
         IN IF decoded.err # ""
            THEN Respond(origin, 400, "invalid JSON body: " \o decoded.err, "")
            ELSE IF Validate(req) # ""
            THEN Respond(origin, 400, Validate(req), "")
            ELSE LET generated == GenerateToken(req.room_name,
                                                req.user_identity, signed)
                 IN IF generated.err # ""
                    THEN Respond(origin, 500,
                                 "failed to generate token: " \o generated.err, "")
                    ELSE Respond(origin, 200, "", generated.token)

\* a client sends a request
SendRequest(r) ==
    /\ Len(served) + Cardinality(inflight) < MaxRequests
    /\ inflight' = inflight \cup {r}
    /\ UNCHANGED <<frontendURL, served>>

\* net/http runs the handler on a request
ServeHTTP(r, signed) ==
    /\ r \in inflight
    /\ inflight' = inflight \ {r}
    /\ served' = Append(served,
                        [request |-> r,
                         response |-> AuthLiveKitTokenHandler(frontendURL, r, signed)])
    /\ UNCHANGED frontendURL

(***************************************************************************)
(* The echo guard and the dedupe set on their own: noteTtsUtterance and    *)
(* isLikelyTtsEcho are called with texts at chosen times, and the dedupe   *)
(* step of the transcription effect is run on a set that is nearly full.   *)
(***************************************************************************)
\* noteTtsUtterance calls in one run
MaxNotes == 6

\* noteTtsUtterance calls in one run in which isLikelyTtsEcho is called
MaxCheckedNotes == 2

\* the clock of the echo guard stops here
MaxEchoTime == 10002

\* the pauses between two calls of the echo guard, in ms
EchoSteps == {5000, 5001}

TextHistory == <<"h", "i", "s", "t", "o", "r", "y">>

TextHistoryIs == <<"H", "i", "s", "t", "o", "r", "y", " ", "i", "s">>

TextHistoryBang == <<"h", "i", "s", "t", "o", "r", "y", "!">>

\* utterances noted, and texts tested against them
NoteTexts == {TextHistory, TextHistoryIs}

CandidateTexts == {TextHi, TextHistory, TextHistoryBang, TextHistoryIs, <<" ">>}

NoVerdict == [candidate |-> Undefined, at |-> 0, notes |-> 0, echo |-> FALSE]

\* no record handled yet
NoKey == [p |-> "none", ts |-> 0]

NothingObserved == echoVerdict = NoVerdict /\ noted = <<>> /\ dedupeKey = NoKey

\* noteTtsUtterance(t)                                 part_005:364-375
NoteUtterance(t, limit) ==
    /\ Len(noted) < limit
    /\ lastTtsHistoryRef' = noteTtsUtterance(lastTtsHistoryRef, t)
    /\ noted' = Append(noted, [norm |-> normalizeText(t), at |-> now])
    /\ UNCHANGED <<now, echoVerdict>>

\* isLikelyTtsEcho(recognized)                         part_005:376-394
CheckEcho(recognized) ==
    /\ echoVerdict' = [candidate |-> recognized, at |-> now, notes |-> Len(noted),
                       echo |-> isLikelyTtsEcho(lastTtsHistoryRef, recognized)]
    /\ UNCHANGED <<now, lastTtsHistoryRef, noted>>

TickEcho(d) ==
    /\ now + d <= MaxEchoTime
    /\ now' = now + d
    /\ UNCHANGED <<lastTtsHistoryRef, noted, echoVerdict>>

\* the keys of the first n records of the local participant, one per ms
FirstKeys(n) == [i \in 1..n |-> [p |-> LocalId, ts |-> i]]

\* the dedupe step of the transcription effect         part_005:584-592
DedupeStep(key) ==
    /\ dedupeKey' = key
    /\ processedIdsRef' = IF AlreadyProcessed(processedIdsRef, key)
                          THEN processedIdsRef
                          ELSE AddProcessed(processedIdsRef, key)

(***************************************************************************)
(* useLiveKit.connect                          useLiveKit.ts:100-464       *)
(* lk.pc is the position of the connect call in flight: "fetching" the     *)
(* token, "connecting" the room, "waiting" for the retry delay; or how the *)
(* last call ended: "connected", "failed" (gave up), "skipped" (returned   *)
(* at its guard).  An error message is the set of the phrases the catch    *)
(* looks for that it contains.                                             *)
(***************************************************************************)
\* useLiveKit.ts:110-111
maxConnectRetries == 3

retryDelays == <<1000, 2000, 4000>>

\* how the token fetch can settle: a token, a network error or timeout, an
\* HTTP status, or a response without token or url
FetchOutcomes == {"ok", "network", "500", "429", "400", "401", "403", "invalid"}

\* how room.connect can settle: connected, the 12 s timeout, or an error of
\* the server that names a status
ConnectOutcomes == {"ok", "timeout", "401"}

\* the message of the error thrown         useLiveKit.ts:139-163, 279-286
ErrorMessage(outcome) ==
    CASE outcome = "429" -> {"Rate limit"}
      [] outcome = "invalid" -> {"Invalid token"}
      [] outcome \in {"400", "401", "403", "500"} -> {outcome}
      [] OTHER -> {}

\* a test that finds every error retryable
isRetryableErrorAlways(message) == TRUE

\* useLiveKit.ts:423-429
isRetryableError(message) ==
    message \cap {"Rate limit", "Invalid token", "400", "401", "403"} = {}

LiveKitMounted ==
    lk = [pc |-> "idle", retryCount |-> 0, roomRef |-> 0, room |-> 0,
          isConnecting |-> FALSE, due |-> 0, delays |-> <<>>, fetches |-> 0,
          connects |-> 0, rooms |-> 0, onErrors |-> 0, calls |-> 0]

\* connect(retryCount) up to the token fetch; isConnecting is the value of
\* the closure that makes the call             useLiveKit.ts:101-135
connect(c, retryCount, isConnecting) ==
    IF c.roomRef # 0 \/ isConnecting
    THEN [c EXCEPT !.pc = "skipped"]
    ELSE [c EXCEPT !.pc = "fetching", !.retryCount = retryCount,
                   !.isConnecting = TRUE, !.fetches = @ + 1]

\* the catch of connect                        useLiveKit.ts:409-462
CatchConnect(c, message) ==
    IF c.retryCount < maxConnectRetries /\ isRetryableError(message)
    THEN [c EXCEPT !.pc = "waiting", !.due = now + retryDelays[c.retryCount + 1]]
    ELSE [c EXCEPT !.pc = "failed", !.isConnecting = FALSE, !.roomRef = 0,
                   !.room = 0, !.onErrors = @ + 1]

\* the application calls connect()           part_005:459-470
ConnectCalled ==
    /\ lk.pc \in {"idle", "failed", "skipped", "connected"}
    /\ lk.calls < MaxConnectCalls
    /\ lk' = connect([lk EXCEPT !.calls = @ + 1, !.onErrors = 0, !.delays = <<>>,
                                !.fetches = 0, !.connects = 0],
                     0, lk.isConnecting)
    /\ UNCHANGED now

\* the token fetch settles                     useLiveKit.ts:121-189
FetchSettles(outcome) ==
    /\ lk.pc = "fetching"
    /\ lk' = IF outcome = "ok"
             THEN [lk EXCEPT !.pc = "connecting", !.rooms = @ + 1,
                             !.roomRef = lk.rooms + 1, !.room = lk.rooms + 1,
                             !.connects = @ + 1]
             ELSE CatchConnect(lk, ErrorMessage(outcome))
    /\ UNCHANGED now

\* room.connect settles, or its timeout does   useLiveKit.ts:279-289
RoomConnectSettles(outcome) ==
    /\ lk.pc = "connecting"
    /\ lk' = IF outcome = "ok"
             THEN [lk EXCEPT !.pc = "connected", !.isConnecting = FALSE]
             ELSE CatchConnect(lk, ErrorMessage(outcome))
    /\ UNCHANGED now

\* the retry delay is over: connect(retryCount + 1), called by the closure
\* of the first call, whose isConnecting is false  useLiveKit.ts:432-440
RetryDelayEnds ==
    /\ lk.pc = "waiting"
    /\ now' = lk.due
    /\ lk' = connect([lk EXCEPT !.delays = Append(@, lk.due - now)],
                     lk.retryCount + 1, FALSE)

\* the application calls disconnect()          useLiveKit.ts:470-478
DisconnectCalled ==
    /\ lk.pc \in {"failed", "skipped", "connected"}
    /\ lk.roomRef # 0
    /\ lk' = [lk EXCEPT !.pc = "idle", !.roomRef = 0, !.room = 0]
    /\ UNCHANGED now

(***************************************************************************)
(* The control of recognition by mute and connection state                 *)
(*                                                  part_005:416-555       *)
(* coord holds what the last render saw: isConnected and isMuted as        *)
(* useLiveKit returned them, ready (liveKitParticipants has the local      *)
(* participant with a sid), isTranscribing of useSTT, the ref               *)
(* localParticipantIdRef, and of the last handler run its kind, the calls  *)
(* it made and its number.                                                 *)
(***************************************************************************)
\* the hook before its first render: no room, so isMuted is true
\*                                                  part_004:852-861
CoordMounted ==
    coord = [isConnected |-> FALSE, isMuted |-> TRUE, ready |-> FALSE,
             isTranscribing |-> FALSE, localParticipantIdRef |-> "null",
             handler |-> "mount", made |-> <<>>, n |-> 0]

\* part_005:416-422
canStartSTT(c) == c.isConnected /\ ~c.isMuted /\ c.ready

\* a startTranscription without the mute test
startTranscriptionWhileMuted(c) ==
    IF ~c.isConnected \/ c.localParticipantIdRef = "null" THEN <<>>
    ELSE IF c.isTranscribing THEN <<>>
    ELSE IF ~isSTTAvailable THEN <<>>
    ELSE <<"startLocalTranscription">>

\* the calls startTranscription makes                  part_005:475-526
startTranscription(c) ==
    IF ~c.isConnected \/ c.localParticipantIdRef = "null" THEN <<>>
    ELSE IF c.isMuted THEN <<>>
    ELSE IF c.isTranscribing THEN <<>>
    ELSE IF ~isSTTAvailable THEN <<>>
    ELSE <<"startLocalTranscription">>

\* the calls stopTranscription makes                   part_005:529-534
stopTranscription(c) ==
    IF c.localParticipantIdRef # "null" THEN <<"stopSTT">> ELSE <<>>

\* the calls of the mute effect                        part_005:536-555
MuteEffect(c) ==
    IF ~c.isConnected THEN <<>>
    ELSE IF c.isMuted
    THEN IF c.isTranscribing
         THEN <<"stopTranscription">> \o stopTranscription(c)
         ELSE <<>>
    ELSE IF ~c.isTranscribing /\ canStartSTT(c)
    THEN <<"startTranscription">> \o startTranscription(c)
    ELSE <<>>

\* the calls a handler makes into useSTT, for the local participant
CallsSTT(made) ==
    IF \E i \in 1..Len(made) : made[i] = "startLocalTranscription"
    THEN StartLocalTranscription(LocalId) /\ UNCHANGED segVars
    ELSE IF \E i \in 1..Len(made) : made[i] = "stopSTT"
    THEN StopTranscription(LocalId) /\ UNCHANGED <<partials, transcriptions, nResults>>
    ELSE UNCHANGED <<sttVars, segVars>>

\* a render with these values from useLiveKit, and its effects: the sync of
\* localParticipantIdRef (442-456) and the mute effect, which runs because
\* one of its dependencies changed
CoordRender(connected, muted, ready) ==
    /\ coord.n < MaxCoordSteps
    /\ <<connected, muted, ready, isTranscribing>>
          # <<coord.isConnected, coord.isMuted, coord.ready, coord.isTranscribing>>
    /\ LET c == [coord EXCEPT !.isConnected = connected, !.isMuted = muted,
                              !.ready = ready,
                              !.isTranscribing = isTranscribing,
                              !.localParticipantIdRef =
                                  IF ready THEN LocalId ELSE @]
           made == MuteEffect(c)
       IN /\ coord' = [c EXCEPT !.handler = "render", !.made = made, !.n = @ + 1]
          /\ CallsSTT(made)

\* the page calls startTranscription                   part_017:61-68, 128-135
CallerStart ==
    /\ coord.n < MaxCoordSteps
    /\ LET made == <<"startTranscription">> \o startTranscription(coord)
       IN /\ coord' = [coord EXCEPT !.handler = "start", !.made = made, !.n = @ + 1]
          /\ CallsSTT(made)

\* the page calls stopTranscription                    part_017:128-132
CallerStop ==
    /\ coord.n < MaxCoordSteps
    /\ LET made == <<"stopTranscription">> \o stopTranscription(coord)
       IN /\ coord' = [coord EXCEPT !.handler = "stop", !.made = made, !.n = @ + 1]
          /\ CallsSTT(made)

(***************************************************************************)
(* The restart state machine: recognizers start, fail, end and restart;    *)
(* no recognition results are delivered.                                   *)
(***************************************************************************)
sttOnly == <<now, orchVars, isTranslationAvailable, trVars, ttsVars,
            srvVars, utilVars, coordVars, lkVars>>

MountedSTT ==
    /\ InitSTT /\ InitSeg /\ now = 0 /\ ServerStarted("") /\ NothingObserved /\ CoordMounted /\ LiveKitMounted
    /\ OrchMounted(TRUE, "webrtc") /\ TranslationMounted(TRUE)
    /\ TTSMounted(TRUE)

NextSTT ==
    \/ \E p \in Participants :
          StartLocalTranscription(p) /\ UNCHANGED <<segVars, sttOnly>>
    \/ \E p \in Participants :
          StopTranscription(p)
             /\ UNCHANGED <<partials, transcriptions, nResults, sttOnly>>
    \/ \E r \in RecIds : RecOnStart(r) /\ UNCHANGED <<segVars, sttOnly>>
    \/ \E r \in RecIds, code \in ErrorCodes :
          RecOnError(r, code) /\ UNCHANGED <<segVars, sttOnly>>
    \/ \E r \in RecIds : RecOnEnd(r) /\ UNCHANGED <<segVars, sttOnly>>
    \/ RestartTimerFire /\ UNCHANGED <<segVars, sttOnly>>

SpecSTT == MountedSTT /\ [][NextSTT]_vars

(***************************************************************************)
(* The restart state machine when recognition keeps failing: every session *)
(* ends after a recoverable error or a start() that threw, never by itself *)
(* and never by stopTranscription.  The platform delivers the events it    *)
(* owes: a started session reports its start, an ended session its end     *)
(* event, and a pending cooldown timer fires.                              *)
(***************************************************************************)
RecoverableCodes == {code \in ErrorCodes : Recoverable(code)}

SessionStarts == \E r \in RecIds : RecOnStart(r) /\ UNCHANGED <<segVars, sttOnly>>

SessionEnds ==
    \E r \in RecIds :
       /\ recognizers[r].phase = "ending"
       /\ RecOnEnd(r) /\ UNCHANGED <<segVars, sttOnly>>

CooldownEnds == RestartTimerFire /\ UNCHANGED <<segVars, sttOnly>>

NextFailing ==
    \/ \E p \in Participants :
          StartLocalTranscription(p) /\ UNCHANGED <<segVars, sttOnly>>
    \/ SessionStarts
    \/ \E r \in RecIds, code \in RecoverableCodes :
          RecOnError(r, code) /\ UNCHANGED <<segVars, sttOnly>>
    \/ SessionEnds
    \/ CooldownEnds

SpecFailing ==
    /\ MountedSTT /\ [][NextFailing]_vars
    /\ WF_vars(SessionStarts) /\ WF_vars(SessionEnds) /\ WF_vars(CooldownEnds)

(***************************************************************************)
(* Segmentation: recognizers are started and stopped and deliver results   *)
(* while their session is open (also after stop(), until the end event);   *)
(* the clock advances.                                                     *)
(***************************************************************************)
segOnly == <<orchVars, isTranslationAvailable, trVars, ttsVars, srvVars,
            utilVars, coordVars, lkVars>>

NextSeg ==
    \/ \E p \in Participants :
          StartLocalTranscription(p) /\ UNCHANGED <<segVars, now, segOnly>>
    \/ \E p \in Participants :
          StopTranscription(p)
             /\ UNCHANGED <<partials, transcriptions, nResults, now, segOnly>>
    \/ \E r \in RecIds : RecOnStart(r) /\ UNCHANGED <<segVars, now, segOnly>>
    \/ \E r \in RecIds, tr \in Transcripts, isFinal \in BOOLEAN :
          RecOnResult(r, tr, isFinal) /\ UNCHANGED <<sttVars, now, segOnly>>
    \/ \E t \in silenceTimers :
          SilenceTimerFire(t) /\ UNCHANGED <<sttVars, now, segOnly>>
    \/ \E d \in TickSteps : Tick(d) /\ UNCHANGED <<sttVars, segVars, segOnly>>

SpecSeg == MountedSTT /\ [][NextSeg]_vars

(***************************************************************************)
(* The translation hook: invocations start and their awaits settle.        *)
(***************************************************************************)
trOnly == <<sttVars, segVars, now, orchVars, ttsVars, srvVars, utilVars, coordVars, lkVars>>

MountedTranslation ==
    /\ STTMounted(TRUE) /\ InitSeg /\ now = 0 /\ ServerStarted("") /\ NothingObserved /\ CoordMounted /\ LiveKitMounted
    /\ OrchMounted(TRUE, "webrtc") /\ InitTranslation
    /\ TTSMounted(TRUE)

NextTranslation ==
    \/ \E i \in CallIds, text \in CallTexts, key \in PairKeys :
          TranslateTextCall(i, text, key) /\ UNCHANGED trOnly
    \/ \E i \in CallIds, key \in PairKeys :
          PreloadTranslatorCall(i, key) /\ UNCHANGED trOnly
    \/ \E i \in CallIds, ok \in BOOLEAN : CreateResolves(i, ok) /\ UNCHANGED trOnly
    \/ \E i \in CallIds : GotTranslator(i) /\ UNCHANGED trOnly
    \/ \E i \in CallIds, outcome \in {"text", "empty", "throws"} :
          TranslateSettles(i, outcome) /\ UNCHANGED trOnly
    \/ \E i \in CallIds : BackoffEnds(i) /\ UNCHANGED trOnly

SpecTranslation == MountedTranslation /\ [][NextTranslation]_vars

(***************************************************************************)
(* The translation hook until and after its unmount: invocations are       *)
(* issued while the hook is mounted; those in flight at the unmount go on. *)
(***************************************************************************)
NextTeardown ==
    \/ \E i \in CallIds, text \in CallTexts, key \in PairKeys :
          /\ ~teardown.done
          /\ TranslateTextCall(i, text, key) /\ UNCHANGED trOnly
    \/ \E i \in CallIds, key \in PairKeys :
          /\ ~teardown.done
          /\ PreloadTranslatorCall(i, key) /\ UNCHANGED trOnly
    \/ \E i \in CallIds, ok \in BOOLEAN : CreateResolves(i, ok) /\ UNCHANGED trOnly
    \/ \E i \in CallIds : GotTranslator(i) /\ UNCHANGED trOnly
    \/ \E i \in CallIds, outcome \in {"text", "empty", "throws"} :
          TranslateSettles(i, outcome) /\ UNCHANGED trOnly
    \/ \E i \in CallIds : BackoffEnds(i) /\ UNCHANGED trOnly
    \/ Unmount /\ UNCHANGED trOnly

SpecTeardown == MountedTranslation /\ [][NextTeardown]_vars

(***************************************************************************)
(* The local pipeline of the orchestrator: the recognition hook publishes  *)
(* partial views and records, renders run the effects, awaits settle and   *)
(* the clock advances.                                                     *)
(***************************************************************************)
orchOnly == <<sttVars, segObjs, segmentRef, silenceTimers, nResults,
              isTranslationAvailable, trVars, ttsVars, srvVars, utilVars, coordVars, lkVars>>

MountedOrch ==
    /\ STTMounted(TRUE) /\ InitSeg /\ now = 0 /\ ServerStarted("") /\ NothingObserved /\ CoordMounted /\ LiveKitMounted
    /\ \E ttsEnabled \in BOOLEAN : OrchMounted(ttsEnabled, "webrtc")
    /\ InitTranslation
    /\ TTSMounted(TRUE)

NextOrch ==
    \/ \E detector \in BOOLEAN : Commit(detector) /\ UNCHANGED <<now, orchOnly>>
    \/ \E run \in finalRuns, lang \in {sttLanguage, targetLanguage} :
          DetectResolves(run, lang) /\ UNCHANGED <<now, orchOnly>>
    \/ \E run \in finalRuns, outcome \in Outcomes :
          TranslateResolves(run, outcome) /\ UNCHANGED <<now, orchOnly>>
    \/ \E subId \in DOMAIN partialTranslateTimerRef :
          PartialTimerFire(subId) /\ UNCHANGED <<now, orchOnly>>
    \/ \E run \in partialRuns, outcome \in {"translated", "original"} :
          PartialResolves(run, outcome) /\ UNCHANGED <<now, orchOnly>>
    \/ \E i \in 1..Len(speakCalls) : SpeakEnds(i) /\ UNCHANGED <<now, orchOnly>>
    \/ \E text \in PartialTexts :
          /\ nPartials < MaxOrchPartials
          /\ PublishPartial(text) /\ UNCHANGED <<now, orchOnly>>
    \/ \E text \in FinalTexts : CloseSegment(text) /\ UNCHANGED <<now, orchOnly>>
    \/ \E d \in OrchSteps :
          TickOrch(d) /\ UNCHANGED <<orchVars, transcriptions, partials, orchOnly>>

SpecOrch == MountedOrch /\ [][NextOrch]_vars

(***************************************************************************)
(* The local pipeline while the local user's own translations are spoken:  *)
(* TTS and translation are on, there is no LanguageDetector, every record  *)
(* is the sentence "hello there how are you" and every partial view is     *)
(* short.                                                                  *)
(***************************************************************************)
MountedEcho ==
    /\ STTMounted(TRUE) /\ InitSeg /\ now = 0 /\ ServerStarted("") /\ NothingObserved /\ CoordMounted /\ LiveKitMounted
    /\ OrchMounted(TRUE, "webrtc")
    /\ TranslationMounted(TRUE)
    /\ TTSMounted(TRUE)

NextEcho ==
    \/ \E detector \in {FALSE} : Commit(detector) /\ UNCHANGED <<now, orchOnly>>
    \/ \E run \in finalRuns, outcome \in {"translated", "original"} :
          TranslateResolves(run, outcome) /\ UNCHANGED <<now, orchOnly>>
    \/ \E subId \in DOMAIN partialTranslateTimerRef :
          PartialTimerFire(subId) /\ UNCHANGED <<now, orchOnly>>
    \/ \E run \in partialRuns, outcome \in {"translated", "original"} :
          PartialResolves(run, outcome) /\ UNCHANGED <<now, orchOnly>>
    \/ \E i \in 1..Len(speakCalls) : SpeakEnds(i) /\ UNCHANGED <<now, orchOnly>>
    \/ \E text \in {TextHi} :
          /\ nPartials < MaxEchoPartials
          /\ PublishPartial(text) /\ UNCHANGED <<now, orchOnly>>
    \/ \E text \in {TextHelloPlain} :
          CloseSegment(text) /\ UNCHANGED <<now, orchOnly>>
    \/ \E d \in OrchSteps :
          TickOrch(d) /\ UNCHANGED <<orchVars, transcriptions, partials, orchOnly>>

SpecEcho == MountedEcho /\ [][NextEcho]_vars

(***************************************************************************)
(* The debounced translation of partial views: TTS is off, translation is  *)
(* available and there is no LanguageDetector; the recognition hook        *)
(* publishes partial views of changing text and closes segments, the       *)
(* debounce timers fire and the translations settle.                       *)
(***************************************************************************)
MountedPartials ==
    /\ STTMounted(TRUE) /\ InitSeg /\ now = 0 /\ ServerStarted("") /\ NothingObserved /\ CoordMounted /\ LiveKitMounted
    /\ OrchMounted(FALSE, "webrtc")
    /\ TranslationMounted(TRUE)
    /\ TTSMounted(TRUE)

NextPartials ==
    \/ \E detector \in {FALSE} : Commit(detector) /\ UNCHANGED <<now, orchOnly>>
    \/ \E run \in finalRuns, outcome \in {"translated"} :
          TranslateResolves(run, outcome) /\ UNCHANGED <<now, orchOnly>>
    \/ \E subId \in DOMAIN partialTranslateTimerRef :
          PartialTimerFire(subId) /\ UNCHANGED <<now, orchOnly>>
    \/ \E run \in partialRuns, outcome \in {"translated", "original"} :
          PartialResolves(run, outcome) /\ UNCHANGED <<now, orchOnly>>
    \/ \E text \in PartialTexts : PublishPartial(text) /\ UNCHANGED <<now, orchOnly>>
    \/ \E text \in {TextHelloPlain} :
          CloseSegment(text) /\ UNCHANGED <<now, orchOnly>>
    \/ \E d \in OrchSteps :
          /\ now + d <= MaxPartialsTime
          /\ TickOrch(d) /\ UNCHANGED <<orchVars, transcriptions, partials, orchOnly>>

SpecPartials == MountedPartials /\ [][NextPartials]_vars

(***************************************************************************)
(* The remote path of the orchestrator: data messages arrive, remote       *)
(* participants start and stop speaking, timers fire and awaits settle.    *)
(***************************************************************************)
remoteOnly == <<sttVars, segObjs, segmentRef, silenceTimers, nResults, now,
                isTranslationAvailable, trVars, ttsVars, srvVars,
                utilVars, coordVars, lkVars>>

MountedRemote ==
    /\ STTMounted(TRUE) /\ InitSeg /\ now = 0 /\ ServerStarted("") /\ NothingObserved /\ CoordMounted /\ LiveKitMounted
    /\ \E mode \in {"tts_only", "webrtc"} : OrchMounted(TRUE, mode)
    /\ TranslationMounted(TRUE)
    /\ TTSMounted(TRUE)

NextRemote ==
    \/ \E detector \in {FALSE} : Commit(detector) /\ UNCHANGED remoteOnly
    \/ \E p \in RemoteSpeakers, text \in {TextHi} :
          OnDataReceived(p, text) /\ UNCHANGED remoteOnly
    \/ \E msg \in remoteRuns, outcome \in {"translated", "original"} :
          OnDataResolves(msg, outcome) /\ UNCHANGED remoteOnly
    \/ \E p \in RemoteSpeakers : SpeakingChanges(p) /\ UNCHANGED remoteOnly
    \/ \E p \in remoteTtsTailTimerRef : TailTimerFire(p) /\ UNCHANGED remoteOnly
    \/ \E i \in 1..Len(speakCalls) : SpeakEnds(i) /\ UNCHANGED remoteOnly

SpecRemote == MountedRemote /\ [][NextRemote]_vars

(***************************************************************************)
(* The remote TTS queue in webrtc mode with synthesis enabled and          *)
(* available.  What the page does by itself happens eventually: a pending  *)
(* render, a translateText promise that settles, a tail timer that fires,  *)
(* an utterance that ends.  Messages and speaking changes are the other    *)
(* participants' and need not happen.                                      *)
(***************************************************************************)
QueueRenders == \E detector \in {FALSE} : Commit(detector) /\ UNCHANGED remoteOnly

QueueTranslationSettles ==
    \E msg \in remoteRuns, outcome \in {"translated", "original"} :
       OnDataResolves(msg, outcome) /\ UNCHANGED remoteOnly

QueueTailTimerFires ==
    \E p \in remoteTtsTailTimerRef : TailTimerFire(p) /\ UNCHANGED remoteOnly

QueueSpeakEnds == \E i \in 1..Len(speakCalls) : SpeakEnds(i) /\ UNCHANGED remoteOnly

MountedQueue ==
    /\ STTMounted(TRUE) /\ InitSeg /\ now = 0 /\ ServerStarted("") /\ NothingObserved /\ CoordMounted /\ LiveKitMounted
    /\ OrchMounted(TRUE, "webrtc")
    /\ TranslationMounted(TRUE)
    /\ TTSMounted(TRUE)

\* the remote participant of this specification
QueueSpeakers == {"r1"}

NextQueue ==
    \/ QueueRenders
    \/ \E p \in QueueSpeakers, text \in {TextHi} :
          OnDataReceived(p, text) /\ UNCHANGED remoteOnly
    \/ QueueTranslationSettles
    \/ \E p \in QueueSpeakers : SpeakingChanges(p) /\ UNCHANGED remoteOnly
    \/ QueueTailTimerFires
    \/ QueueSpeakEnds

\* the step is the callback of a tail timer: only it removes a timer
TailTimerFired ==
    /\ remoteTtsTailTimerRef' # remoteTtsTailTimerRef
    /\ remoteTtsTailTimerRef' \subseteq remoteTtsTailTimerRef

\* the step is the end of an utterance: only it removes a speak() call, and
\* the drain that awaited it may add the next one
UtteranceEnded ==
    \E i \in 1..Len(speakCalls) :
       LET rest == SubSeq(speakCalls, 1, i - 1) \o SubSeq(speakCalls, i + 1, Len(speakCalls))
       IN \/ speakCalls' = rest
          \/ /\ Len(speakCalls') = Len(rest) + 1
             /\ SubSeq(speakCalls', 1, Len(rest)) = rest
             /\ Len(spoken') = Len(spoken) + 1

\* A tail timer is enabled exactly while it is pending and an utterance can
\* end exactly while its speak() call is under way, so weak fairness of
\* these two steps is written with these conditions.
SpecQueue ==
    /\ MountedQueue /\ [][NextQueue]_vars
    /\ WF_vars(QueueRenders) /\ WF_vars(QueueTranslationSettles)
    /\ ([]<>(remoteTtsTailTimerRef = {}) \/ []<><<TailTimerFired>>_vars)
    /\ ([]<>(speakCalls = <<>>) \/ []<><<UtteranceEnded>>_vars)

(***************************************************************************)
(* The coordinator with the user's TTS setting disabled: a local segment   *)
(* is finalized, remote messages are received in either listening mode,    *)
(* remote participants start and stop speaking.                            *)
(***************************************************************************)
MountedTtsOff ==
    /\ STTMounted(TRUE) /\ InitSeg /\ now = 0 /\ ServerStarted("") /\ NothingObserved /\ CoordMounted /\ LiveKitMounted
    /\ \E mode \in {"tts_only", "webrtc"} : OrchMounted(FALSE, mode)
    /\ TranslationMounted(TRUE)
    /\ TTSMounted(TRUE)

\* the clock of this specification stops here
MaxTtsOffTime == 2200

\* the remote participant of this specification
TtsOffSpeakers == {"r1"}

NextTtsOff ==
    \/ \E detector \in {FALSE} : Commit(detector) /\ UNCHANGED remoteOnly
    \/ \E text \in {TextHelloPlain} : CloseSegment(text) /\ UNCHANGED remoteOnly
    \/ \E run \in finalRuns, outcome \in {"translated"} :
          TranslateResolves(run, outcome) /\ UNCHANGED remoteOnly
    \/ \E p \in TtsOffSpeakers, text \in {TextHi} :
          OnDataReceived(p, text) /\ UNCHANGED remoteOnly
    \/ \E msg \in remoteRuns, outcome \in {"translated", "original"} :
          OnDataResolves(msg, outcome) /\ UNCHANGED remoteOnly
    \/ \E p \in TtsOffSpeakers : SpeakingChanges(p) /\ UNCHANGED remoteOnly
    \/ \E p \in remoteTtsTailTimerRef : TailTimerFire(p) /\ UNCHANGED remoteOnly
    \/ \E i \in 1..Len(speakCalls) : SpeakEnds(i) /\ UNCHANGED remoteOnly
    \/ \E d \in OrchSteps :
          /\ now + d <= MaxTtsOffTime
          /\ TickOrch(d) /\ UNCHANGED <<orchVars, transcriptions, partials, orchOnly>>

SpecTtsOff == MountedTtsOff /\ [][NextTtsOff]_vars

(***************************************************************************)
(* Reception of remote messages where speech synthesis may be unavailable  *)
(* (no speechSynthesis, or no voice yet) and the text of a message may be   *)
(* whitespace only.                                                         *)
(***************************************************************************)
TextBlank == <<" ", " ">>

InboundTexts == {TextHi, TextBlank}

MountedInbound ==
    /\ STTMounted(TRUE) /\ InitSeg /\ now = 0 /\ ServerStarted("") /\ NothingObserved /\ CoordMounted /\ LiveKitMounted
    /\ \E mode \in {"tts_only", "webrtc"} : OrchMounted(TRUE, mode)
    /\ TranslationMounted(TRUE)
    /\ \E available \in BOOLEAN : TTSMounted(available)

NextInbound ==
    \/ \E detector \in {FALSE} : Commit(detector) /\ UNCHANGED remoteOnly
    \/ \E p \in RemoteSpeakers, text \in InboundTexts :
          OnDataReceived(p, text) /\ UNCHANGED remoteOnly
    \/ \E msg \in remoteRuns, outcome \in {"translated", "original"} :
          OnDataResolves(msg, outcome) /\ UNCHANGED remoteOnly
    \/ \E p \in RemoteSpeakers : SpeakingChanges(p) /\ UNCHANGED remoteOnly
    \/ \E p \in remoteTtsTailTimerRef : TailTimerFire(p) /\ UNCHANGED remoteOnly
    \/ \E i \in 1..Len(speakCalls) : SpeakEnds(i) /\ UNCHANGED remoteOnly

SpecInbound == MountedInbound /\ [][NextInbound]_vars

(***************************************************************************)
(* The synthesis hook: speak() is called, utterances end with an event and *)
(* the awaits settle.                                                      *)
(***************************************************************************)
ttsOnly == <<sttVars, segVars, now, isTranslationAvailable, trVars,
             subtitles, participantSpeaking, isTtsEnabled, listeningMode,
             rendered, subtitlesRef, processedIdsRef, lastTtsEndAtRef,
             lastTtsHistoryRef, partialTranslateTimerRef, partialLastTextRef,
             pendingRemoteTtsRef, prevSpeakingMapRef, remoteTtsTailTimerRef,
             finalRuns, partialRuns, remoteRuns, speakCalls, published,
             translateCalls, spoken, finalizedIds, segmentsClosed, nPartials,
             nMessages, srvVars, utilVars, coordVars, lkVars>>

MountedTTS ==
    /\ STTMounted(TRUE) /\ InitSeg /\ now = 0 /\ ServerStarted("") /\ NothingObserved /\ CoordMounted /\ LiveKitMounted
    /\ OrchMounted(TRUE, "webrtc") /\ TranslationMounted(TRUE)
    /\ \E available \in BOOLEAN : TTSMounted(available)

NextTTS ==
    \/ \E i \in TtsCallIds, text \in SpeakTexts, caller \in Callers,
          initialized \in BOOLEAN, voice \in BOOLEAN :
          SpeakCalled(i, text, caller, initialized, voice) /\ UNCHANGED ttsOnly
    \/ \E i \in TtsCallIds, event \in SpeechEvents :
          UtteranceEnds(i, event) /\ UNCHANGED ttsOnly
    \/ \E i \in TtsCallIds : SpeakSettles(i) /\ UNCHANGED ttsOnly
    \/ \E initialized \in BOOLEAN, voice \in BOOLEAN :
          BecomesAvailable(initialized, voice) /\ UNCHANGED ttsOnly

SpecTTS == MountedTTS /\ [][NextTTS]_vars

(***************************************************************************)
(* The token endpoint: clients send requests and the server serves them.   *)
(***************************************************************************)
srvOnly == <<sttVars, segVars, now, orchVars, isTranslationAvailable, trVars,
            ttsVars, utilVars, coordVars, lkVars>>

MountedServer ==
    /\ STTMounted(TRUE) /\ InitSeg /\ now = 0
    /\ OrchMounted(TRUE, "webrtc") /\ TranslationMounted(TRUE)
    /\ TTSMounted(TRUE)
    /\ \E origin \in {"", "https://app.example"} : ServerStarted(origin)
    /\ NothingObserved /\ CoordMounted /\ LiveKitMounted

NextServer ==
    \/ \E r \in Requests : SendRequest(r) /\ UNCHANGED srvOnly
    \/ \E r \in inflight, signed \in BOOLEAN : ServeHTTP(r, signed) /\ UNCHANGED srvOnly

SpecServer == MountedServer /\ [][NextServer]_vars

(***************************************************************************)
(* The echo guard: utterances are noted, candidates are tested and time    *)
(* passes.  SpecEchoGuard tests candidates against short histories,        *)
(* SpecEchoHistory fills the history beyond its capacity.                  *)
(***************************************************************************)
echoOnly == <<sttVars, segVars, isTranslationAvailable, trVars, ttsError,
             queuedRef, ttsCalls, srvVars, coordVars, lkVars, dedupeKey,
             subtitles, isTtsSpeaking, participantSpeaking, isTtsEnabled,
             isTTSAvailable, listeningMode, rendered, subtitlesRef,
             processedIdsRef, lastTtsEndAtRef, partialTranslateTimerRef,
             partialLastTextRef, pendingRemoteTtsRef, prevSpeakingMapRef,
             remoteTtsTailTimerRef, finalRuns, partialRuns, remoteRuns,
             speakCalls, published, translateCalls, spoken, finalizedIds,
             segmentsClosed, nPartials, nMessages>>

MountedEchoGuard ==
    /\ STTMounted(TRUE) /\ InitSeg /\ now = 0 /\ ServerStarted("") /\ NothingObserved /\ CoordMounted /\ LiveKitMounted
    /\ OrchMounted(TRUE, "webrtc") /\ TranslationMounted(TRUE)
    /\ TTSMounted(TRUE)

NextEchoGuard ==
    \/ \E t \in NoteTexts : NoteUtterance(t, MaxCheckedNotes) /\ UNCHANGED echoOnly
    \/ \E t \in CandidateTexts : CheckEcho(t) /\ UNCHANGED echoOnly
    \/ \E d \in EchoSteps : TickEcho(d) /\ UNCHANGED echoOnly

SpecEchoGuard == MountedEchoGuard /\ [][NextEchoGuard]_vars

NextEchoHistory ==
    \/ \E t \in NoteTexts : NoteUtterance(t, MaxNotes) /\ UNCHANGED echoOnly
    \/ \E d \in EchoSteps : TickEcho(d) /\ UNCHANGED echoOnly

SpecEchoHistory == MountedEchoGuard /\ [][NextEchoHistory]_vars

(***************************************************************************)
(* The dedupe set: the effect has handled 498 to 500 records and handles   *)
(* some more, new ones and ones it has seen.                               *)
(***************************************************************************)
dedupeOnly == <<sttVars, segVars, now, isTranslationAvailable, trVars, ttsError,
               queuedRef, ttsCalls, srvVars, coordVars, lkVars, echoVerdict, noted,
               subtitles, isTtsSpeaking, participantSpeaking, isTtsEnabled,
               isTTSAvailable, listeningMode, rendered, subtitlesRef,
               lastTtsEndAtRef, lastTtsHistoryRef, partialTranslateTimerRef,
               partialLastTextRef, pendingRemoteTtsRef, prevSpeakingMapRef,
               remoteTtsTailTimerRef, finalRuns, partialRuns, remoteRuns,
               speakCalls, published, translateCalls, spoken, finalizedIds,
               segmentsClosed, nPartials, nMessages>>

\* the orchestrator after its first n records
Handled(n) ==
    /\ subtitles = <<>>
    /\ isTtsSpeaking = FALSE
    /\ participantSpeaking = [p \in RemoteSpeakers |-> FALSE]
    /\ isTtsEnabled = FALSE
    /\ listeningMode = "webrtc"
    /\ rendered = [isTtsSpeaking |-> FALSE, transcriptions |-> <<>>,
                   partials |-> <<>>, participantSpeaking |-> participantSpeaking]
    /\ subtitlesRef = <<>>
    /\ processedIdsRef = FirstKeys(n)
    /\ lastTtsEndAtRef = 0
    /\ lastTtsHistoryRef = <<>>
    /\ partialTranslateTimerRef = EmptyMap
    /\ partialLastTextRef = EmptyMap
    /\ pendingRemoteTtsRef = EmptyMap
    /\ prevSpeakingMapRef = participantSpeaking
    /\ remoteTtsTailTimerRef = {}
    /\ finalRuns = {}
    /\ partialRuns = {}
    /\ remoteRuns = {}
    /\ speakCalls = <<>>
    /\ published = <<>>
    /\ translateCalls = <<>>
    /\ spoken = <<>>
    /\ finalizedIds = {}
    /\ segmentsClosed = 0
    /\ nPartials = 0
    /\ nMessages = 0

\* keys of records handled: some that are in the set and some that are new
DedupeKeys ==
    {[p |-> LocalId, ts |-> ts] : ts \in (ProcessedIdsCap - 3)..(ProcessedIdsCap + 4)}

MountedDedupe ==
    /\ STTMounted(TRUE) /\ InitSeg /\ now = 0 /\ ServerStarted("") /\ NothingObserved /\ CoordMounted /\ LiveKitMounted
    /\ TranslationMounted(TRUE)
    /\ TTSMounted(TRUE)
    /\ \E n \in (ProcessedIdsCap - 2)..ProcessedIdsCap : Handled(n)

NextDedupe == \E key \in DedupeKeys : DedupeStep(key) /\ UNCHANGED dedupeOnly

SpecDedupe == MountedDedupe /\ [][NextDedupe]_vars

(***************************************************************************)
(* The coordinator and the recognition hook: useLiveKit's values change,   *)
(* the coordinator renders, the page starts and stops transcription, and   *)
(* the recognizers start, fail, end and restart.                           *)
(***************************************************************************)
coordOnly == <<now, orchVars, isTranslationAvailable, trVars, ttsVars,
              srvVars, utilVars, lkVars>>

MountedCoord ==
    /\ InitSTT /\ InitSeg /\ now = 0 /\ ServerStarted("") /\ NothingObserved /\ CoordMounted /\ LiveKitMounted
    /\ OrchMounted(TRUE, "webrtc") /\ TranslationMounted(TRUE)
    /\ TTSMounted(TRUE)

NextCoord ==
    \/ \E connected \in BOOLEAN, muted \in BOOLEAN, ready \in BOOLEAN :
          CoordRender(connected, muted, ready) /\ UNCHANGED coordOnly
    \/ CallerStart /\ UNCHANGED coordOnly
    \/ CallerStop /\ UNCHANGED coordOnly
    \/ \E r \in RecIds : RecOnStart(r) /\ UNCHANGED <<segVars, coord, coordOnly>>
    \/ \E r \in RecIds, code \in ErrorCodes :
          RecOnError(r, code) /\ UNCHANGED <<segVars, coord, coordOnly>>
    \/ \E r \in RecIds : RecOnEnd(r) /\ UNCHANGED <<segVars, coord, coordOnly>>
    \/ RestartTimerFire /\ UNCHANGED <<segVars, coord, coordOnly>>

SpecCoord == MountedCoord /\ [][NextCoord]_vars

(***************************************************************************)
(* The connection to the room: the application connects and disconnects,   *)
(* token fetches and room connections settle, retry delays end.            *)
(***************************************************************************)
lkOnly == <<sttVars, segVars, orchVars, isTranslationAvailable, trVars,
           ttsVars, srvVars, utilVars, coordVars>>

MountedLiveKit ==
    /\ STTMounted(TRUE) /\ InitSeg /\ now = 0 /\ ServerStarted("") /\ NothingObserved /\ CoordMounted /\ LiveKitMounted
    /\ OrchMounted(TRUE, "webrtc") /\ TranslationMounted(TRUE)
    /\ TTSMounted(TRUE)

NextLiveKit ==
    \/ ConnectCalled /\ UNCHANGED lkOnly
    \/ \E outcome \in FetchOutcomes : FetchSettles(outcome) /\ UNCHANGED lkOnly
    \/ \E outcome \in ConnectOutcomes : RoomConnectSettles(outcome) /\ UNCHANGED lkOnly
    \/ RetryDelayEnds /\ UNCHANGED lkOnly
    \/ DisconnectCalled /\ UNCHANGED lkOnly

SpecLiveKit == MountedLiveKit /\ [][NextLiveKit]_vars

(***************************************************************************)
(* Properties of the token endpoint (SpecServer).                          *)
(***************************************************************************)
\* the body of the request decodes to non-empty user_identity and room_name
ValidBody(r) ==
    /\ r.body.kind = "object"
    /\ r.body.user_identity # ""
    /\ r.body.room_name # ""

\* C21: the token handler answers 200 with a non-empty token only to a POST
\* whose JSON body has non-empty user_identity and room_name; a POST whose
\* body decodes with an empty user_identity or room_name gets 400 and the
\* "missing required field" error of an empty field; a POST whose body is
\* not valid JSON gets 400; a method other than POST and OPTIONS gets 405;
\* OPTIONS gets 200 with the CORS headers and no token.
C21_TokenHandler ==
    \A i \in 1..Len(served) :
       LET r == served[i].request
           w == served[i].response
       IN /\ w.token # "" => r.method = "POST" /\ ValidBody(r) /\ w.status = 200
          /\ (r.method = "POST" /\ w.status = 200) => w.token # ""
          /\ (r.method = "POST" /\ r.body.kind # "malformed" /\ ~ValidBody(r)) =>
                /\ w.status = 400
                /\ \/ /\ Decode(r.body).req.user_identity = ""
                      /\ w.error = "missing required field: user_identity"
                   \/ /\ Decode(r.body).req.room_name = ""
                      /\ Decode(r.body).req.user_identity # ""
                      /\ w.error = "missing required field: room_name"
          /\ (r.method = "POST" /\ r.body.kind = "malformed") => w.status = 400
          /\ r.method \notin {"POST", "OPTIONS"} => w.status = 405
          /\ r.method = "OPTIONS" =>
                /\ w.status = 200
                /\ w.token = ""
                /\ w.headers.AccessControlAllowOrigin \in {"*", frontendURL}
                /\ w.headers.AccessControlAllowOrigin # ""
                /\ w.headers.AccessControlAllowMethods = "POST, OPTIONS"
                /\ w.headers.AccessControlAllowHeaders = "Content-Type"

\* a token was issued and a POST with an empty room_name was refused
C21_Witness ==
    \E i, j \in 1..Len(served) :
       /\ served[i].response.token # "" /\ served[i].response.status = 200
       /\ served[j].request.method = "POST"
       /\ served[j].request.body.kind = "object"
       /\ served[j].request.body.user_identity # ""
       /\ served[j].request.body.room_name = ""
       /\ served[j].response.status = 400

(***************************************************************************)
(* Properties of the restart state machine (SpecSTT).                      *)
(***************************************************************************)
\* the step is the cooldown timer of participant p calling recognizer.start()
RestartAttempt(p) ==
    /\ restartTimers # <<>>
    /\ Head(restartTimers).p = p
    /\ observed'.ev = "restartTimer"
    /\ observed'.start # "none"

\* the step schedules a cooldown timer for participant p
TimerScheduled(p) ==
    Len(SelectSeq(restartTimers', LAMBDA t : t.p = p)) >
        Len(SelectSeq(restartTimers, LAMBDA t : t.p = p))

\* the step is the end event of recognizer r
EndHandled(r) ==
    /\ observed'.ev = "onEnd"
    /\ observed'.r = r
    /\ recognizers[r].phase \in {"listening", "ending"}
    /\ recognizers'[r].phase = "idle"

\* C1: once stopTranscription(p) has been called, and until p is started
\* (registered) again, no handler schedules a cooldown timer for p and no
\* cooldown timer calls recognizer.start() for p; in particular the end
\* event that follows the stop() call triggers no restart.
C1_NoRestartAfterStop ==
    [][\A p \in Participants :
          stopRequested[p].req => ~TimerScheduled(p) /\ ~RestartAttempt(p)]_vars

\* the end event of a recognizer that stopTranscription stopped has just been
\* handled, its participant still being stopped
C1_Witness ==
    /\ observed.ev = "onEnd"
    /\ \E p \in Participants :
          stopRequested[p].req /\ stopRequested[p].r = observed.r

\* C2: after three consecutive thrown restarts for p (restartFailCount[p] has
\* reached 3) no further restart attempt is made for p, and the end event
\* handled at that count removes p from the active map, the restart flags and
\* the fail counters and schedules no timer.
C2_GivesUpAfterThree ==
    [][\A p \in Participants :
          /\ RestartAttempt(p) => Get(restartFailCount, p, 0) < RestartFailLimit
          /\ \A r \in RecIds :
                (/\ EndHandled(r)
                 /\ recognizers[r].owner = p
                 /\ Has(activeTranscriptions, p)
                 /\ ~(Get(hasError, p, FALSE) /\ ~Recoverable(Get(lastError, p, "null")))
                 /\ ~Get(isRestarting, p, FALSE)
                 /\ Get(restartFailCount, p, 0) >= RestartFailLimit)
                => /\ ~Has(activeTranscriptions', p)
                   /\ ~Has(isRestarting', p)
                   /\ ~Has(restartFailCount', p)
                   /\ ~TimerScheduled(p)]_vars

\* a restart has just been attempted although three restarts in a row had thrown
C2_FourthAttempt ==
    /\ observed.ev = "restartTimer"
    /\ observed.start = "threw"
    /\ \E p \in Participants : Get(restartFailCount, p, 0) > RestartFailLimit

\* C12: when every recognizer session ends in failure, the restarts come to
\* an end: from some point on no cooldown timer calls recognizer.start().
C12_RestartBounded ==
    <>[][\A p \in Participants : ~RestartAttempt(p)]_vars

\* the step is the end event of recognizer r after a non-recoverable error,
\* its participant being registered
EndsNonRecoverable(r) ==
    /\ EndHandled(r)
    /\ Has(activeTranscriptions, recognizers[r].owner)
    /\ Get(hasError, recognizers[r].owner, FALSE)
    /\ Get(lastError, recognizers[r].owner, "null")
          \notin {"no-speech", "audio-capture"}

\* the step is a startLocalTranscription(p) call that finds p not registered
\* and recognition available
StartCalled(p) ==
    /\ observed'.ev = "start"
    /\ ~Has(activeTranscriptions, p)
    /\ isSTTAvailable
    /\ \/ observed' # observed
       \/ recognizers' # recognizers

NoEntry(p) ==
    /\ ~Has(activeTranscriptions, p)
    /\ ~Has(isRestarting, p)
    /\ ~Has(restartFailCount, p)
    /\ ~Has(hasError, p)
    /\ ~Has(lastError, p)
    /\ ~Has(isRecognitionRunning, p)
    /\ ~Has(segmentRef, p)

\* C16: stopTranscription(p) leaves no entry for p in any per-participant
\* map, and while p is stopped no later handler other than a
\* startLocalTranscription(p) call (recognizer callback, cooldown timer)
\* puts one back.
C16_NoStateAfterStop ==
    [][\A p \in Participants :
          (/\ stopRequested'[p].req
           /\ observed'.ev # "start"
           /\ observed'.ev = "stop" \/ NoEntry(p))
          => NoEntry(p)']_vars

\* p was stopped and not started since (the second recognizer is unused);
\* the end event of its recognizer has been handled and the running flag of
\* p is back in its map
C16_EntryAfterStop ==
    /\ observed = Obs("onEnd", 1, "none")
    /\ recognizers[2].phase = "unused"
    /\ \E p \in Participants :
          /\ stopRequested[p].req
          /\ stopRequested[p].r = 1
          /\ Has(isRecognitionRunning, p)

\* p was stopped and not started since; a late recognition event of its
\* recognizer has opened a segment for p, and the segment's record has been
\* emitted
C16_SegmentAfterStop ==
    /\ recognizers[2].phase = "unused"
    /\ \E p \in Participants :
          /\ stopRequested[p].req
          /\ Has(segmentRef, p)
          /\ \E i \in 1..Len(transcriptions) :
                /\ transcriptions[i].participantId = p
                /\ transcriptions[i].segmentId.at > 0

\* the per-participant state of p
StateOf(p) ==
    [active |-> Get(activeTranscriptions, p, 0),
     isRestarting |-> Get(isRestarting, p, "none"),
     restartFailCount |-> Get(restartFailCount, p, "none"),
     hasError |-> Get(hasError, p, "none"),
     lastError |-> Get(lastError, p, "none"),
     isRecognitionRunning |-> Get(isRecognitionRunning, p, "none"),
     segment |-> Get(segmentRef, p, 0)]

\* the step is a startLocalTranscription(p) call that finds p registered
StartWhileActive(p) ==
    /\ observed'.ev = "start"
    /\ p \in DOMAIN activeTranscriptions

\* C17: a startLocalTranscription(p) call that finds p registered creates no
\* recognizer, calls no recognizer.start(), reports no error
\* (transcriptionError is null after it) and leaves the per-participant
\* state of p, the recognizers, the pending timers and isTranscribing as
\* they were; the recognizer registered for p is never replaced while p is
\* registered, and it is a recognizer created for p.
C17_StartIdempotent ==
    /\ [][\A p \in Participants :
             /\ StartWhileActive(p)
                   => /\ observed'.start = "none"
                      /\ observed'.r = 0
                      /\ recognizers' = recognizers
                      /\ StateOf(p)' = StateOf(p)
                      /\ restartTimers' = restartTimers
                      /\ isTranscribing' = isTranscribing
                      /\ transcriptionError' = "null"
             /\ (p \in DOMAIN activeTranscriptions /\ p \in DOMAIN activeTranscriptions')
                   => activeTranscriptions'[p] = activeTranscriptions[p]]_vars
    /\ [](\A p \in DOMAIN activeTranscriptions :
             /\ activeTranscriptions[p] \in RecIds
             /\ recognizers[activeTranscriptions[p]].owner = p)

\* startLocalTranscription(p) has just been called while the recognizer
\* registered for p was listening, and no second recognizer was created
C17_Witness ==
    /\ observed = Obs("start", 0, "none")
    /\ recognizers[2].phase = "unused"
    /\ \E p \in Participants :
          /\ p \in DOMAIN activeTranscriptions
          /\ activeTranscriptions[p] = 1
          /\ recognizers[1].phase = "listening"
          /\ isRecognitionRunning[p]

\* the step is a startLocalTranscription(p) call whose recognizer.start()
\* call threw
StartThrew(p) ==
    /\ observed'.ev = "start"
    /\ observed'.start = "threw"
    /\ observed' # observed \/ recognizers' # recognizers
    /\ recognizers'[observed'.r].owner = p

\* the step is a startLocalTranscription(p) call whose recognizer.start()
\* call returned
StartSucceeded(p) ==
    /\ observed'.ev = "start"
    /\ observed'.start = "ok"
    /\ observed' # observed \/ recognizers' # recognizers
    /\ recognizers'[observed'.r].owner = p

\* C18 as stated: after a successful start the running flag of p is set and p
\* is registered; when recognizer.start() throws, the running flag of p is
\* false, p is not registered, and the startLocalTranscription call rejects
\* with the error.
C18_StartThrowRethrown ==
    [][\A p \in Participants :
          /\ StartSucceeded(p)
                => /\ isRecognitionRunning'[p]
                   /\ activeTranscriptions'[p] = observed'.r
          /\ StartThrew(p)
                => /\ isRecognitionRunning'[p] = FALSE
                   /\ ~Has(activeTranscriptions', p)
                   /\ observed'.settled = "rejected"]_vars

\* C18, with the error reported through transcriptionError: after a
\* successful start the running flag of p is set and p is registered; when
\* recognizer.start() throws, the running flag of p is false, p is not
\* registered, transcriptionError holds the error and the
\* startLocalTranscription call resolves.
C18_StartThrowRollsBack ==
    [][\A p \in Participants :
          /\ StartSucceeded(p)
                => /\ isRecognitionRunning'[p]
                   /\ activeTranscriptions'[p] = observed'.r
          /\ StartThrew(p)
                => /\ isRecognitionRunning'[p] = FALSE
                   /\ ~Has(activeTranscriptions', p)
                   /\ transcriptionError' = "start-failed"
                   /\ observed'.settled = "resolved"]_vars

\* recognizer.start() has just thrown in startLocalTranscription(p): the
\* running flag of p is false and p is not registered
C18_Witness ==
    /\ observed.ev = "start"
    /\ observed.start = "threw"
    /\ transcriptionError = "start-failed"
    /\ \E p \in Participants :
          /\ recognizers[observed.r].owner = p
          /\ p \in DOMAIN isRecognitionRunning
          /\ ~isRecognitionRunning[p]
          /\ p \notin DOMAIN activeTranscriptions

\* the end event of recognizer r is a natural end for its participant, who
\* is registered, with no restart in progress and fewer than 3 failures
NaturalEnd(r) ==
    LET p == recognizers[r].owner IN
    /\ Has(activeTranscriptions, p)
    /\ ~Get(hasError, p, FALSE)
    /\ ~Get(isRestarting, p, FALSE)
    /\ Get(restartFailCount, p, 0) < RestartFailLimit

\* a cooldown timer of participant p is pending
CooldownPending(p) == \E i \in 1..Len(restartTimers) : restartTimers[i].p = p

\* the step is a cooldown timer firing
TimerFires == restartTimers # <<>> /\ restartTimers' = Tail(restartTimers)

\* C22, first half: a natural end of the recognizer of a registered
\* participant, with no restart in progress and fewer than 3 failures,
\* schedules one cooldown timer for that recognizer; the timer, when it
\* fires with the participant registered and not running, calls start() on
\* that recognizer, and calls nothing otherwise.
C22_NaturalEndRestarts ==
    [][/\ \A r \in RecIds :
             (EndHandled(r) /\ NaturalEnd(r)) =>
                 restartTimers' = Append(restartTimers,
                                         [p |-> recognizers[r].owner, r |-> r])
       /\ TimerFires =>
             LET t == Head(restartTimers) IN
             IF /\ Has(activeTranscriptions, t.p)
                /\ ~Get(isRecognitionRunning, t.p, FALSE)
             THEN observed' = Obs("restartTimer", t.r, observed'.start)
                     /\ observed'.start # "none"
             ELSE observed' = Obs("restartTimer", t.r, "none")]_vars

\* C22: as above, and an end event handled while a cooldown timer of the
\* participant is pending schedules no further timer.
C22_OneRestartPerCooldown ==
    [][\A r \in RecIds :
          /\ (EndHandled(r) /\ NaturalEnd(r)) => TimerScheduled(recognizers[r].owner)
          /\ (EndHandled(r) /\ CooldownPending(recognizers[r].owner)) =>
                 ~TimerScheduled(recognizers[r].owner)]_vars

\* two cooldown timers of one participant are pending
C22_TwoCooldowns ==
    \E i, j \in 1..Len(restartTimers) :
       i # j /\ restartTimers[i].p = restartTimers[j].p

(***************************************************************************)
(* Properties of the segmentation (SpecSeg).                               *)
(***************************************************************************)
\* the step replaces the open segment of p by a new one, i.e. closes it
SegmentClosed(p) ==
    /\ Has(segmentRef, p)
    /\ Has(segmentRef', p)
    /\ segObjs'[segmentRef'[p]].segmentId # SegOf(p).segmentId

\* C3: the open segment of p is closed only when silenceMs (500 ms) have
\* passed since its last recognition event; every pending silence timer is
\* the one armed by the last event of the segment it closes over, due
\* silenceMs after that event and not overdue; and at most one silence timer
\* is pending per participant.
C3_SilenceTimer ==
    /\ [](\A t \in silenceTimers :
             /\ segObjs[t.obj].timer = t.id
             /\ t.deadline = segObjs[t.obj].lastActivityAt + silenceMs
             /\ now <= t.deadline)
    /\ [](\A p \in Participants :
             Cardinality({t \in silenceTimers : t.p = p}) <= 1)
    /\ [][\A p \in Participants :
             SegmentClosed(p) => now >= SegOf(p).lastActivityAt + silenceMs]_vars

\* three events, the first at 0 and the last at 900, and the segment they
\* opened was closed at 1400 with all three texts
C3_Witness ==
    /\ nResults = 3
    /\ \E i \in 1..Len(transcriptions) :
          /\ transcriptions[i].segmentId.at = 0
          /\ transcriptions[i].timestamp = 2 * silenceMs + 400
          /\ transcriptions[i].text = <<"h", "i", " ", "h", "i", " ", "h", "i">>

\* a partial view of segment s of participant p is in the list
HasPartial(ps, p, s) ==
    \E j \in 1..Len(ps) : ps[j].segmentId = s /\ ps[j].participantId = p

\* the step publishes a partial view: a view is in the list that was not
PartialPublished(v) ==
    /\ \E j \in 1..Len(partials') : partials'[j] = v
    /\ \A j \in 1..Len(partials) : partials[j] # v

\* the step gives p an open segment it did not have
SegmentOpened(p) ==
    /\ Has(segmentRef', p)
    /\ Has(segmentRef, p) => segObjs'[segmentRef'[p]].segmentId # SegOf(p).segmentId

\* C14: once the record of segment s of participant p has been emitted, no
\* partial view of s is in the list and s is not the open segment of p any
\* more, so no recognition event is added to it.  The step that closes a
\* segment (emitting its record or, for an empty buffer, only retracting its
\* partial view) removes the partial view of s and opens a segment with a
\* later id; a segment id is the time the segment was opened, a segment is
\* closed later than it was opened, and a partial view is only ever
\* published for the segment that is open, so the id of a closed segment
\* never comes back.
C14_FinalizationLast ==
    /\ [](\A i \in 1..Len(transcriptions) :
             LET rec == transcriptions[i] IN
             /\ ~HasPartial(partials, rec.participantId, rec.segmentId)
             /\ Has(segmentRef, rec.participantId)
                   => SegOf(rec.participantId).segmentId # rec.segmentId
             /\ rec.segmentId.at < rec.timestamp
             /\ rec.timestamp <= now)
    /\ [][\A p \in Participants :
             /\ SegmentClosed(p)
                   => /\ ~HasPartial(partials', p, SegOf(p).segmentId)
                      /\ SegOf(p).segmentId.at < now
                      /\ IF Trim(SegOf(p).bufferText) # <<>>
                         THEN transcriptions' = Append(transcriptions,
                                  [participantId |-> p,
                                   text |-> Trim(SegOf(p).bufferText),
                                   timestamp |-> now,
                                   segmentId |-> SegOf(p).segmentId])
                         ELSE transcriptions' = transcriptions
             /\ SegmentOpened(p)
                   => segObjs'[segmentRef'[p]].segmentId = [p |-> p, at |-> now]
             /\ \A j \in 1..Len(partials') :
                   (PartialPublished(partials'[j]) /\ partials'[j].participantId = p)
                      => /\ Has(segmentRef', p)
                         /\ partials'[j].segmentId =
                               segObjs'[segmentRef'[p]].segmentId]_vars

\* the record of the segment opened at 0 has been emitted and a later
\* recognition event has published a partial view of the next segment
C14_Witness ==
    /\ \E i \in 1..Len(transcriptions) : transcriptions[i].segmentId.at = 0
    /\ \E j \in 1..Len(partials) :
          /\ partials[j].segmentId.at >= silenceMs
          /\ \E p \in Participants :
                /\ Has(segmentRef, p)
                /\ SegOf(p).segmentId = partials[j].segmentId

\* the step is the callback of the silence timer t
SilenceTimerFired(t) ==
    /\ t \in silenceTimers
    /\ silenceTimers' = silenceTimers \ {t}
    /\ nResults' = nResults
    /\ Has(segmentRef', t.p)

\* C23: when the silence timer of a participant fires, a record with the
\* trimmed bufferText and the id of the timer's segment is appended to the
\* transcriptions if that text is not empty, and nothing is appended if it
\* is empty; in both cases no partial view of that segment is left, and the
\* participant's open segment is a new one: empty, with no timer, and with a
\* segmentId different from that of the closed segment.
C23_TimerClosesSegment ==
    [][\A t \in silenceTimers : SilenceTimerFired(t) =>
          LET seg == segObjs[t.obj]
              open == segObjs'[segmentRef'[t.p]]
          IN /\ IF Trim(seg.bufferText) # <<>>
                THEN /\ Len(transcriptions') = Len(transcriptions) + 1
                     /\ SubSeq(transcriptions', 1, Len(transcriptions)) = transcriptions
                     /\ Last(transcriptions').text = Trim(seg.bufferText)
                     /\ Last(transcriptions').segmentId = seg.segmentId
                     /\ Last(transcriptions').participantId = t.p
                ELSE transcriptions' = transcriptions
             /\ ~HasPartial(partials', t.p, seg.segmentId)
             /\ \A j \in 1..Len(partials') :
                   \E k \in 1..Len(partials) : partials[k] = partials'[j]
             /\ open.bufferText = <<>>
             /\ open.lastInterim = <<>>
             /\ open.segmentId # seg.segmentId
             /\ \A u \in silenceTimers' : u.p # t.p]_vars

\* a participant has one record, and the segment opened when that record
\* was emitted has since been closed by its timer with an empty buffer: the
\* open segment is a later one and no timer is pending
C23_Witness ==
    /\ silenceTimers = {}
    /\ Len(transcriptions) = 1
    /\ LET rec == transcriptions[1] IN
       /\ Has(segmentRef, rec.participantId)
       /\ SegOf(rec.participantId).segmentId.at > rec.timestamp
       /\ SegOf(rec.participantId).bufferText = <<>>

RECURSIVE JoinSpace(_)
\* texts.join(" ")
JoinSpace(texts) ==
    IF texts = <<>> THEN <<>>
    ELSE IF Len(texts) = 1 THEN texts[1]
    ELSE texts[1] \o <<" ">> \o JoinSpace(Tail(texts))

RECURSIVE Contributions(_)
\* the final transcripts that are not blank, each without its trailing
\* whitespace
Contributions(texts) ==
    IF texts = <<>> THEN <<>>
    ELSE IF Trim(texts[1]) = <<>> THEN Contributions(Tail(texts))
    ELSE <<TrimEnd(texts[1])>> \o Contributions(Tail(texts))

\* the open segment of p before and after the step; an empty buffer stands
\* for a segment that does not exist yet
SegBefore(p) == IF Has(segmentRef, p) THEN SegOf(p) ELSE NewSegment(p)

SegAfter(p) == segObjs'[segmentRef'[p]]

\* the step delivers a recognition event to participant p
EventFor(p) ==
    /\ nResults' = nResults + 1
    /\ Has(segmentRef', p)
    /\ \/ ~Has(segmentRef, p)
       \/ SegAfter(p) # SegBefore(p)

\* an interim event leaves bufferText alone, a final event clears
\* lastInterim, and the partial view an event publishes has the text
\* trim(bufferText + " " + lastInterim) of the segment after the event
EventsUpdateSegment ==
    [][\A p \in Participants : EventFor(p) =>
          /\ SegAfter(p).finals = SegBefore(p).finals
                => SegAfter(p).bufferText = SegBefore(p).bufferText
          /\ SegAfter(p).finals # SegBefore(p).finals
                => SegAfter(p).lastInterim = <<>>
          /\ \A j \in 1..Len(partials') :
                (\A k \in 1..Len(partials) : partials[k] # partials'[j]) =>
                   /\ partials'[j].participantId = p
                   /\ partials'[j].segmentId = SegAfter(p).segmentId
                   /\ partials'[j].text =
                         Trim(SegAfter(p).bufferText \o <<" ">>
                                 \o SegAfter(p).lastInterim)]_vars

\* C24 as stated: the text of an emitted record is the transcripts of all
\* final events of its segment, in arrival order, joined by single spaces and
\* trimmed; interim events only replace lastInterim; a published partial
\* view has the text trim(bufferText + " " + lastInterim).
C24_RecordIsJoinOfFinals ==
    /\ EventsUpdateSegment
    /\ [][\A t \in silenceTimers :
             (SilenceTimerFired(t) /\ transcriptions' # transcriptions) =>
                Last(transcriptions').text = Trim(JoinSpace(segObjs[t.obj].finals))]_vars

\* C24 for any transcripts: the buffer of a segment, and the text of the
\* record emitted for it, is the single-space join of the final transcripts
\* that are not blank, each without its trailing whitespace, trimmed; interim
\* events only replace lastInterim; a published partial view has the text
\* trim(bufferText + " " + lastInterim).
C24_RecordIsJoinOfContributions ==
    /\ EventsUpdateSegment
    /\ [](\A o \in DOMAIN segObjs :
             segObjs[o].bufferText = Trim(JoinSpace(Contributions(segObjs[o].finals))))
    /\ [][\A t \in silenceTimers :
             (SilenceTimerFired(t) /\ transcriptions' # transcriptions) =>
                Last(transcriptions').text =
                    Trim(JoinSpace(Contributions(segObjs[t.obj].finals)))]_vars

\* three events were delivered and a record was emitted for a segment that
\* received two final events with text
C24_Witness ==
    /\ nResults = MaxResults
    /\ \E i \in 1..Len(transcriptions) :
          transcriptions[i].text = <<"h", "i", " ", "h", "i">>

(***************************************************************************)
(* Properties of the local pipeline (SpecOrch, SpecEcho).                  *)
(***************************************************************************)
\* the dedupe keys of the records published so far by the recognition hook
RecordKeys == {DedupeKey(transcriptions[i]) : i \in 1..Len(transcriptions)}

\* translateText calls made for the finalized record with this key
FinalCalls(key) ==
    {i \in 1..Len(translateCalls) :
        translateCalls[i].path = "final" /\ translateCalls[i].key = key}

\* data-channel broadcasts of the record with this key
Broadcasts(key) ==
    {i \in 1..Len(published) :
        published[i].speakerId = key.p /\ published[i].timestamp = key.ts}

\* a processing run of the record with this key is suspended at an await
InFlight(key) == \E run \in finalRuns : DedupeKey(run.rec) = key

\* the subtitle of this segment is in the list, finalized
Finalized(list, segmentId) ==
    /\ HasId(list, SubId(segmentId))
    /\ ~list[IndexOf(list, SubId(segmentId))].isProcessing

NotedHello ==
    \E j \in 1..Len(lastTtsHistoryRef) :
       /\ lastTtsHistoryRef[j].norm = normalizeText(TextHello)
       /\ now - lastTtsHistoryRef[j].at <= EchoWindowMs

\* the step starts the processing of this record
ProcessingStarts(rec) ==
    /\ ~AlreadyProcessed(processedIdsRef, DedupeKey(rec))
    /\ AlreadyProcessed(processedIdsRef', DedupeKey(rec))

\* C6 as stated: while the history holds "Hello there, how are you" noted at
\* most 10 s ago, isLikelyTtsEcho classifies "hello there how are you" as
\* echo, and the step that starts processing a finalized record with that
\* text drops it: no translateText call, no broadcast, no speak() call, no
\* run left in flight, and no subtitle of its segment in the list.
C6_EchoDropped ==
    /\ [](NotedHello => isLikelyTtsEcho(lastTtsHistoryRef, TextHelloPlain))
    /\ [][\A i \in 1..Len(transcriptions) :
             (/\ ProcessingStarts(transcriptions[i])
              /\ transcriptions[i].text = TextHelloPlain
              /\ NotedHello)
             => /\ translateCalls' = translateCalls
                /\ published' = published
                /\ speakCalls' = speakCalls
                /\ spoken' = spoken
                /\ finalRuns' = finalRuns
                /\ ~HasId(subtitles', SubId(transcriptions[i].segmentId))]_vars

\* C6 without the placeholder: the classification, and the echo record is
\* neither translated nor broadcast nor spoken and leaves no run in flight.
C6_EchoNotForwarded ==
    /\ [](NotedHello => isLikelyTtsEcho(lastTtsHistoryRef, TextHelloPlain))
    /\ [][\A i \in 1..Len(transcriptions) :
             (/\ ProcessingStarts(transcriptions[i])
              /\ transcriptions[i].text = TextHelloPlain
              /\ NotedHello)
             => /\ translateCalls' = translateCalls
                /\ published' = published
                /\ speakCalls' = speakCalls
                /\ spoken' = spoken
                /\ finalRuns' = finalRuns]_vars

\* "Hello there, how are you" was spoken and noted, the record "hello there
\* how are you" has been processed and dropped as echo, and the placeholder
\* of its segment is still in the list
C6_PlaceholderKept ==
    /\ NotedHello
    /\ \E i \in 1..Len(spoken) : spoken[i] = TextHello
    /\ \E i \in 1..Len(transcriptions) :
          LET rec == transcriptions[i] IN
          /\ rec.text = TextHelloPlain
          /\ AlreadyProcessed(processedIdsRef, DedupeKey(rec))
          /\ FinalCalls(DedupeKey(rec)) = {}
          /\ Broadcasts(DedupeKey(rec)) = {}
          /\ HasId(subtitles, SubId(rec.segmentId))
          /\ subtitles[IndexOf(subtitles, SubId(rec.segmentId))].isProcessing
          /\ subtitles = subtitlesRef

\* the partial translation shown for this subtitle id, Undefined if none
ShownPartial(list, subId) ==
    IF HasId(list, subId)
    THEN list[IndexOf(list, subId)].translatedTextPartial
    ELSE Undefined

\* the subtitle ids of the local segments
LocalSubIds == {SubId([p |-> LocalId, at |-> n]) : n \in 1..(MaxSegments + 1)}

\* what translateText can resolve with for a text
TranslationsOf(text) == {Translated(text, outcome) : outcome \in {"translated", "original"}}

\* C19: whenever a step changes the partial translation shown for a segment
\* to a text, that text is a translation of the partial text last recorded
\* for the segment id (partialLastTextRef); at most one debounce timer is
\* pending per segment id and it carries the last recorded text, so a timer
\* for superseded text has been cancelled; a partial view whose text is the
\* last recorded one schedules nothing; and a translation that resolves
\* when the last recorded text is a different one writes nothing.
C19_PartialNeverStale ==
    /\ [](\A subId \in DOMAIN partialTranslateTimerRef :
             partialTranslateTimerRef[subId] = Get(partialLastTextRef, subId, Undefined))
    /\ [][\A subId \in LocalSubIds :
             /\ (/\ ShownPartial(subtitles', subId) # ShownPartial(subtitles, subId)
                 /\ ShownPartial(subtitles', subId) # Undefined)
                   => ShownPartial(subtitles', subId)
                         \in TranslationsOf(Get(partialLastTextRef, subId, Undefined))
             /\ partialLastTextRef' = partialLastTextRef
                   => \/ partialTranslateTimerRef' = partialTranslateTimerRef
                      \/ \E id \in DOMAIN partialTranslateTimerRef :
                            partialTranslateTimerRef' = Del(partialTranslateTimerRef, id)
             /\ \A run \in partialRuns :
                   (/\ run \notin partialRuns'
                    /\ run.text # Get(partialLastTextRef, run.subId, Undefined))
                      => subtitles' = subtitles]_vars

\* the step ends the debounced callback for this subtitle id: its timer
\* fires without a translateText call, or its translateText call settles
CallbackEnds(subId) ==
    \/ /\ Has(partialTranslateTimerRef, subId)
       /\ ~Has(partialTranslateTimerRef', subId)
       /\ partialRuns' = partialRuns
    \/ \E run \in partialRuns : run.subId = subId /\ run \notin partialRuns'

\* C19, for the debounced callback's own subtitle: when the callback for a
\* segment id ends, the partial translation it leaves for that id is
\* unchanged or a translation of the text last recorded for the id; at most
\* one debounce timer is pending per segment id and it carries the last
\* recorded text; a partial view whose text is the last recorded one
\* schedules nothing; and a translation that resolves when the last
\* recorded text is a different one writes nothing.
C19_DebounceDiscipline ==
    /\ [](\A subId \in DOMAIN partialTranslateTimerRef :
             partialTranslateTimerRef[subId] = Get(partialLastTextRef, subId, Undefined))
    /\ [][\A subId \in LocalSubIds :
             /\ (/\ CallbackEnds(subId)
                 /\ ShownPartial(subtitles', subId) # ShownPartial(subtitles, subId)
                 /\ ShownPartial(subtitles', subId) # Undefined)
                   => ShownPartial(subtitles', subId)
                         \in TranslationsOf(Get(partialLastTextRef, subId, Undefined))
             /\ partialLastTextRef' = partialLastTextRef
                   => \/ partialTranslateTimerRef' = partialTranslateTimerRef
                      \/ \E id \in DOMAIN partialTranslateTimerRef :
                            partialTranslateTimerRef' = Del(partialTranslateTimerRef, id)
             /\ \A run \in partialRuns :
                   (/\ run \notin partialRuns'
                    /\ run.text # Get(partialLastTextRef, run.subId, Undefined))
                      => subtitles' = subtitles]_vars

\* a processing subtitle shows an earlier partial text of its segment with
\* that text's translation, although a different text has been recorded for
\* the segment since
C19_StaleShown ==
    \E subId \in DOMAIN partialLastTextRef :
       /\ HasId(subtitles, subId)
       /\ LET s == subtitles[IndexOf(subtitles, subId)] IN
          /\ s.isProcessing
          /\ s.originalTextPartial # Undefined
          /\ Trim(s.originalTextPartial) # partialLastTextRef[subId]
          /\ s.translatedTextPartial \in TranslationsOf(Trim(s.originalTextPartial))
          /\ s.translatedTextPartial \notin TranslationsOf(partialLastTextRef[subId])

\* the step is the delivery of the remote message msg: its translateText
\* call settles and onData runs to its end
Delivered(msg) == msg \in remoteRuns /\ msg \notin remoteRuns'

\* the translated text the delivery of msg has put into the subtitle of msg
DeliveredText(msg) ==
    subtitles'[IndexOf(subtitles', RemoteSubId(msg.speakerId, msg.segmentId))].translatedText

QueueOf(refs, p) == Get(refs, p, <<>>)

\* the subtitle of msg is in the list under the remote-scoped id, finalized
\* and with the original text of msg
RemoteUpserted(msg) ==
    LET subId == RemoteSubId(msg.speakerId, msg.segmentId) IN
    /\ HasId(subtitles', subId)
    /\ LET s == subtitles'[IndexOf(subtitles', subId)] IN
       /\ ~s.isProcessing
       /\ s.originalText = msg.text
       /\ s.translatedText \in TranslationsOf(msg.text)

\* C20 as stated: the delivery of an accepted remote message upserts its
\* subtitle and then, in tts_only mode, calls speak() once with the
\* translated text and enqueues nothing, and in webrtc mode appends the
\* translated text to the speaker's queue and calls no speak().
C20_OneDeliveryAction ==
    [][\A msg \in remoteRuns : Delivered(msg) =>
          /\ RemoteUpserted(msg)
          /\ listeningMode = "tts_only" =>
                /\ spoken' = Append(spoken, DeliveredText(msg))
                /\ pendingRemoteTtsRef' = pendingRemoteTtsRef
          /\ listeningMode = "webrtc" =>
                /\ spoken' = spoken
                /\ speakCalls' = speakCalls
                /\ pendingRemoteTtsRef' =
                      Put(pendingRemoteTtsRef, msg.speakerId,
                          Append(QueueOf(pendingRemoteTtsRef, msg.speakerId),
                                 DeliveredText(msg)))]_vars

\* C20 with its conditions: the delivery of an accepted remote message
\* upserts its subtitle; in tts_only mode nothing is enqueued and speak() is
\* called once with the translated text if speech synthesis is available,
\* and not at all otherwise; in webrtc mode no speak() call is made and the
\* translated text is appended to the speaker's queue if it is not blank,
\* and the queue is left as it is otherwise.
C20_DeliveryByMode ==
    [][\A msg \in remoteRuns : Delivered(msg) =>
          /\ RemoteUpserted(msg)
          /\ listeningMode = "tts_only" =>
                /\ pendingRemoteTtsRef' = pendingRemoteTtsRef
                /\ spoken' = IF isTTSAvailable
                             THEN Append(spoken, DeliveredText(msg))
                             ELSE spoken
          /\ listeningMode = "webrtc" =>
                /\ spoken' = spoken
                /\ speakCalls' = speakCalls
                /\ pendingRemoteTtsRef' =
                      IF Len(Trim(DeliveredText(msg))) > 0
                      THEN Put(pendingRemoteTtsRef, msg.speakerId,
                               Append(QueueOf(pendingRemoteTtsRef, msg.speakerId),
                                      DeliveredText(msg)))
                      ELSE pendingRemoteTtsRef]_vars

\* both modes have delivered: a translated text was spoken at reception, or
\* a second text is in the queue of a speaker
C20_Witness ==
    /\ remoteRuns = {}
    /\ nMessages = MaxMessages
    /\ \/ listeningMode = "tts_only" /\ Len(spoken) = MaxMessages
       \/ /\ listeningMode = "webrtc"
          /\ \E p \in RemoteSpeakers : Len(QueueOf(pendingRemoteTtsRef, p)) = MaxMessages

\* a message was delivered with no delivery action: nothing spoken in
\* tts_only mode, nothing in any queue in webrtc mode
C20_NoDelivery ==
    /\ remoteRuns = {}
    /\ nMessages > 0
    /\ spoken = <<>>
    /\ \A p \in RemoteSpeakers : QueueOf(pendingRemoteTtsRef, p) = <<>>
    /\ remoteTtsTailTimerRef = {}

\* C9: a subtitle id that has once been in the list with isProcessing=false
\* is never in the list with isProcessing=true afterwards.
C9_FinalizedNeverRegresses ==
    \A i \in 1..Len(subtitles) :
       subtitles[i].isProcessing => subtitles[i].id \notin finalizedIds

\* the step is a render running its effects
CommitStep == rendered' # rendered \/ subtitlesRef' # subtitlesRef

\* the gate as the effects of the render of this step evaluate it
GateClosedAtCommit ==
    isTtsSpeaking \/ now - lastTtsEndAtRef' < TTS_TAIL_MS

\* the latest record a render has seen was not processed: every render that
\* saw it as the latest one found the gate closed
GatedRecordPending ==
    /\ rendered.transcriptions # <<>>
    /\ ~AlreadyProcessed(processedIdsRef,
                         DedupeKey(Last(rendered.transcriptions)))

\* C11 as stated: a render that finds the gate closed (synthesis speaking, or
\* less than 2200 ms since it was seen to stop) processes nothing: no dedupe
\* key is added, no translateText call, no broadcast, no speak() call and no
\* subtitle write; and a finalized record that was seen only by renders with
\* the gate closed is not processed by any later run of the effect either.
C11_GatedNeverProcessed ==
    [][/\ (CommitStep /\ GateClosedAtCommit)
             => /\ processedIdsRef' = processedIdsRef
                /\ translateCalls' = translateCalls
                /\ published' = published
                /\ spoken' = spoken
                /\ subtitles' = subtitles
                /\ partialTranslateTimerRef' = partialTranslateTimerRef
       /\ GatedRecordPending
             => ~ProcessingStarts(Last(rendered.transcriptions))]_vars

\* C11, the part about the render that finds the gate closed.
C11_GatedRenderProcessesNothing ==
    [][(CommitStep /\ GateClosedAtCommit)
          => /\ processedIdsRef' = processedIdsRef
             /\ translateCalls' = translateCalls
             /\ published' = published
             /\ spoken' = spoken
             /\ subtitles' = subtitles
             /\ partialTranslateTimerRef' = partialTranslateTimerRef]_vars

(***************************************************************************)
(* Properties of the echo guard (SpecEchoGuard, SpecEchoHistory) and of    *)
(* the dedupe set (SpecDedupe).                                            *)
(***************************************************************************)
\* the verdict is that of a call made in the present state
VerdictCurrent ==
    /\ echoVerdict.candidate # Undefined
    /\ echoVerdict.at = now
    /\ echoVerdict.notes = Len(noted)

\* the shorter of two strings is at least 7/10 of the longer
SeventyPercent(a, b) ==
    IF Len(a) <= Len(b) THEN 10 * Len(a) >= 7 * Len(b) ELSE 10 * Len(b) >= 7 * Len(a)

\* C25: isLikelyTtsEcho(candidate) returns true exactly when the normalized
\* candidate is not empty and some history entry that is not older than
\* 10 s equals it, or contains it or is contained in it with a length ratio
\* min/max of at least 0.7; "hi" is not an echo of "history" or of
\* "history is".
C25_EchoExactly ==
    VerdictCurrent =>
       LET c == normalizeText(echoVerdict.candidate) IN
       /\ echoVerdict.echo <=>
             /\ c # <<>>
             /\ \E i \in 1..Len(lastTtsHistoryRef) :
                   LET h == lastTtsHistoryRef[i] IN
                   /\ now - h.at <= EchoWindowMs
                   /\ \/ h.norm = c
                      \/ /\ Includes(c, h.norm) \/ Includes(h.norm, c)
                         /\ SeventyPercent(c, h.norm)
       /\ echoVerdict.candidate = TextHi => ~echoVerdict.echo

\* "History is" was found to be an echo of a "history" noted exactly 10 s
\* earlier: containment, ratio 7/10
C25_Witness ==
    /\ VerdictCurrent
    /\ echoVerdict.candidate = TextHistoryIs
    /\ echoVerdict.echo
    /\ lastTtsHistoryRef # <<>>
    /\ \A i \in 1..Len(lastTtsHistoryRef) :
          /\ lastTtsHistoryRef[i].norm = TextHistory
          /\ now - lastTtsHistoryRef[i].at = EchoWindowMs

\* C26: after any sequence of noteTtsUtterance calls the history has at most
\* 5 entries, they are the last entries noted, in the order noted, and each
\* was less than 10 s old at the latest call; the history is exactly the
\* last 5 of the utterances that were less than 10 s old at the latest call.
C26_HistoryBounded ==
    LET h == lastTtsHistoryRef IN
    /\ Len(h) <= EchoHistoryCap
    /\ Len(h) <= Len(noted)
    /\ h = SubSeq(noted, Len(noted) - Len(h) + 1, Len(noted))
    /\ noted # <<>> =>
          /\ \A i \in 1..Len(h) : noted[Len(noted)].at - h[i].at < EchoWindowMs
          /\ h = LastN(SelectSeq(noted, LAMBDA x :
                                   noted[Len(noted)].at - x.at < EchoWindowMs),
                       EchoHistoryCap)

\* six utterances were noted within 10 s and the history holds the last
\* five
C26_Witness ==
    /\ Len(noted) = EchoHistoryCap + 1
    /\ Len(lastTtsHistoryRef) = EchoHistoryCap
    /\ lastTtsHistoryRef[1] = noted[2]

\* an utterance noted 10 s before the latest one was dropped for its age
C26_DroppedForAge ==
    /\ Len(noted) = 2
    /\ noted[2].at - noted[1].at = EchoWindowMs
    /\ lastTtsHistoryRef = <<noted[2]>>

\* C27: the dedupe set holds at most 500 keys after every run of the
\* handler and the key of the record just handled is in it; a run that adds
\* a key to a full set evicts the key inserted first and appends the new
\* one, a run that adds a key to a set that is not full evicts nothing.
C27_DedupeCapFifo ==
    /\ [](Len(processedIdsRef) <= ProcessedIdsCap)
    /\ [](dedupeKey # NoKey => dedupeKey \in Range(processedIdsRef))
    /\ [][processedIdsRef' # processedIdsRef =>
             /\ dedupeKey' \notin Range(processedIdsRef)
             /\ processedIdsRef' =
                   IF Len(processedIdsRef) = ProcessedIdsCap
                   THEN Tail(processedIdsRef) \o <<dedupeKey'>>
                   ELSE Append(processedIdsRef, dedupeKey')]_vars

\* the set is full, its first two keys have been evicted and the key just
\* handled is its last
C27_Witness ==
    /\ Len(processedIdsRef) = ProcessedIdsCap
    /\ processedIdsRef[1].ts = 3
    /\ dedupeKey = processedIdsRef[ProcessedIdsCap]
    /\ dedupeKey.ts > ProcessedIdsCap

(***************************************************************************)
(* Properties of the finalized subtitle of a local record.                 *)
(***************************************************************************)
\* the positions of the entries with this id
Entries(list, subId) == {j \in 1..Len(list) : list[j].id = subId}

\* the list holds the finalized subtitle of the record and no stale
\* processing entry
FinalizedFor(list, rec) ==
    LET subId == SubId(rec.segmentId) IN
    /\ Cardinality(Entries(list, subId)) = 1
    /\ \A j \in Entries(list, subId) :
          /\ ~list[j].isProcessing
          /\ list[j].originalText = rec.text
          /\ list[j].translatedText \in TranslationsOf(rec.text)
          /\ list[j].originalTextPartial = Undefined
          /\ list[j].translatedTextPartial = Undefined
    /\ \A j \in 1..Len(list) :
          list[j].isProcessing =>
             /\ ~(list[j].speakerName = rec.participantId /\ list[j].id # subId)
             /\ list[j].originalTextPartial # Undefined
             /\ Len(Trim(list[j].originalTextPartial)) > 0

\* the step broadcasts the record, which ends its processing
Finalizes(rec) == Broadcasts(DedupeKey(rec))' # Broadcasts(DedupeKey(rec))

\* C28: the step that finalizes a local record leaves a subtitle list with
\* exactly one entry for the record's segment id, finalized, with the
\* record's text, a translation of it and no partial text, and with no
\* other processing entry of the speaker and no processing entry whose
\* partial text is empty.
C28_FinalizedSubtitle ==
    [][\A i \in 1..Len(transcriptions) :
          Finalizes(transcriptions[i]) => FinalizedFor(subtitles', transcriptions[i])]_vars

\* the list written by the upsert is the one of C28 whenever the partials
\* effect does not write the list after it in the same render
C28_UpsertWritesFinalized ==
    [][\A i \in 1..Len(transcriptions) :
          Finalizes(transcriptions[i]) =>
             \/ FinalizedFor(subtitles', transcriptions[i])
             \/ rendered'.partials # rendered.partials
             \/ rendered'.isTtsSpeaking # rendered.isTtsSpeaking]_vars

\* a record was broadcast and its run has ended, the list has been rendered
\* since, and it has no entry for the record's segment
C28_FinalizedLost ==
    \E i \in 1..Len(transcriptions) :
        /\ Broadcasts(DedupeKey(transcriptions[i])) # {}
        /\ ~InFlight(DedupeKey(transcriptions[i]))
        /\ subtitles = subtitlesRef
        /\ subtitles # <<>>
        /\ ~HasId(subtitles, SubId(transcriptions[i].segmentId))

\* the list has an entry with this id that is not processing
Shown(list, subId) == \E j \in Entries(list, subId) : ~list[j].isProcessing

\* the step ends a debounced partial translation: its translateText settles,
\* or its timer fires and it translates nothing
PartialCompletes ==
    \/ partialRuns' # partialRuns /\ partialRuns' \subseteq partialRuns
    \/ /\ partialTranslateTimerRef' # partialTranslateTimerRef
       /\ partialRuns' = partialRuns
       /\ rendered' = rendered

\* C37: a debounced partial translation that completes leaves every
\* finalized subtitle of the list as it is, translatedTextPartial unset.
C37_NoPartialAfterFinal ==
    [][PartialCompletes =>
          \A j \in 1..Len(subtitles) :
             ~subtitles[j].isProcessing =>
                /\ HasId(subtitles', subtitles[j].id)
                /\ subtitles'[IndexOf(subtitles', subtitles[j].id)] = subtitles[j]
                /\ subtitles[j].translatedTextPartial = Undefined]_vars

\* the subtitle of a finalized record has been rendered, finalized, and a
\* partial translation that completed afterwards has set its
\* translatedTextPartial
C37_PartialOnFinalized ==
    \E i \in 1..Len(transcriptions) :
        LET subId == SubId(transcriptions[i].segmentId) IN
        /\ Broadcasts(DedupeKey(transcriptions[i])) # {}
        /\ HasId(subtitles, subId)
        /\ ~subtitles[IndexOf(subtitles, subId)].isProcessing
        /\ subtitles[IndexOf(subtitles, subId)].originalText = transcriptions[i].text
        /\ subtitles[IndexOf(subtitles, subId)].translatedTextPartial # Undefined

\* the run of a finalized record that awaits translateText
Translating(run) == run \in finalRuns /\ run.pc = "translating"

\* translateText was called for the record
TranslateCalled(rec) ==
    \E c \in 1..Len(translateCalls) :
        translateCalls[c].path = "final" /\ translateCalls[c].key = DedupeKey(rec)

\* C36: the step in which the translation of a record resolves writes the
\* record's finalized subtitle and keeps every finalized subtitle of the
\* list, in whatever order the translations of runs in flight together
\* resolve.
C36_FinalizeKeepsOthers ==
    [][\A run \in finalRuns :
          (Translating(run) /\ run \notin finalRuns') =>
             /\ Shown(subtitles', SubId(run.rec.segmentId))
             /\ \A j \in 1..Len(subtitles) :
                   ~subtitles[j].isProcessing => Shown(subtitles', subtitles[j].id)]_vars

\* the translations of two records have resolved and no run is in flight;
\* the list has been rendered, it shows the subtitle of one of the records
\* and has no entry for the other
C36_OtherSubtitleLost ==
    \E i, k \in 1..Len(transcriptions) :
        /\ i # k
        /\ TranslateCalled(transcriptions[i]) /\ TranslateCalled(transcriptions[k])
        /\ Broadcasts(DedupeKey(transcriptions[i])) # {}
        /\ Broadcasts(DedupeKey(transcriptions[k])) # {}
        /\ finalRuns = {}
        /\ subtitles = subtitlesRef
        /\ Shown(subtitles, SubId(transcriptions[k].segmentId))
        /\ ~HasId(subtitles, SubId(transcriptions[i].segmentId))

\* the data message of a record
PayloadOf(run) ==
    [text |-> run.rec.text, sourceLang |-> run.sourceLang,
     segmentId |-> run.rec.segmentId, speakerId |-> run.rec.participantId,
     timestamp |-> run.rec.timestamp]

\* the translated text of the record's subtitle in the list
TranslatedShown(list, rec) == list[IndexOf(list, SubId(rec.segmentId))].translatedText

RecordsOf(p) == SelectSeq(transcriptions, LAMBDA rec : rec.participantId = p)

PartialsOf(p) == {partials[i] : i \in {j \in 1..Len(partials) : partials[j].participantId = p}}

\* the pending silence timers of p
SilenceTimersOf(p) == {t \in silenceTimers : t.p = p}

\* stopTranscription(p) was called for a registered p, and
\* startLocalTranscription(p) was not called since
Stopped(p) == stopRequested[p].req /\ stopRequested[p].r # 0

\* C40: the step in which stopTranscription(p) stops a registered p leaves
\* no segment and no silence timer for p, and while p stays stopped no step
\* adds a record or a partial view of p, opens a segment for p or sets a
\* silence timer for p.
C40_NothingAfterStop ==
    [][\A p \in Participants :
          Stopped(p)' =>
             /\ RecordsOf(p)' = RecordsOf(p)
             /\ PartialsOf(p)' \subseteq PartialsOf(p)
             /\ ~Has(segmentRef', p)
             /\ SilenceTimersOf(p)' = {}]_vars

\* p was stopped and not started since; a result event delivered after the
\* stop has opened a segment for p, published its partial view and set its
\* silence timer
C40_PartialAfterStop ==
    /\ recognizers[2].phase = "unused"
    /\ \E p \in Participants :
          /\ Stopped(p)
          /\ Has(segmentRef, p)
          /\ SilenceTimersOf(p) # {}
          /\ \E v \in PartialsOf(p) : v.segmentId = SegOf(p).segmentId

\* p was stopped and not started since, and the silence timer set by a
\* result event delivered after the stop has published a record of p
C40_RecordAfterStop ==
    /\ recognizers[2].phase = "unused"
    /\ \E p \in Participants :
          /\ Stopped(p)
          /\ Len(RecordsOf(p)) = 1
          /\ Has(segmentRef, p)
          /\ SegOf(p).bufferText = <<>>
          /\ SegOf(p).segmentId.at > RecordsOf(p)[1].segmentId.at
          /\ RecordsOf(p)[1].segmentId.at > 0

(***************************************************************************)
(* Further properties of the restart state machine (SpecSTT).              *)
(***************************************************************************)
\* the recognizer registered for p will deliver an event: it is starting,
\* listening or ending
Live(p) == recognizers[activeTranscriptions[p]].phase \in {"starting", "listening", "ending"}

\* a cooldown timer is pending for p
RestartPending(p) == \E i \in 1..Len(restartTimers) : restartTimers[i].p = p

\* p is registered, its recognizer will deliver no event and no restart is
\* pending: nothing will run for p, and startLocalTranscription(p) returns
\* at its already-active guard
Stranded(p) == Has(activeTranscriptions, p) /\ ~Live(p) /\ ~RestartPending(p)

\* C33: in every reachable state, a registered participant has a recognizer
\* that is starting, running or ending (its end event restarts or removes
\* the participant), or a restart cooldown timer pending.
C33_NeverStranded == \A p \in Participants : ~Stranded(p)

\* the restart of p threw: p is registered, nothing runs and nothing is
\* pending for it, and its running flag is cleared
C33_StrandedAfterThrow ==
    \E p \in Participants :
        /\ Stranded(p)
        /\ observed = Obs("restartTimer", activeTranscriptions[p], "threw")
        /\ ~Get(isRecognitionRunning, p, FALSE)
        /\ ~Get(isRestarting, p, FALSE)

\* the recognizers of p that are starting or listening
Running(p) == {r \in RecIds : recognizers[r].owner = p /\
                              recognizers[r].phase \in {"starting", "listening"}}

\* the step is a cooldown timer that calls recognition.start()
TimerStarts ==
    /\ restartTimers # <<>>
    /\ restartTimers' = Tail(restartTimers)
    /\ observed'.ev = "restartTimer"
    /\ observed'.start \in {"ok", "threw"}

\* the cooldown timers start the registered instance only
TimerStartsRegistered ==
    [][TimerStarts =>
          activeTranscriptions[Head(restartTimers).p] = Head(restartTimers).r]_vars

\* at most one instance per participant is starting or listening
OneRunning == \A p \in Participants : Cardinality(Running(p)) <= 1

\* C34: a cooldown timer that calls recognition.start() calls it on the
\* instance registered for its participant at that time, and at most one
\* recognizer instance per participant is starting or listening in any
\* state.
C34_TimerStartsRegisteredOnly == TimerStartsRegistered /\ []OneRunning

\* the instance that runs for p is not the registered one: it was stopped
\* and replaced during its cooldown, and its timer started it again
C34_StaleInstanceRuns ==
    \E p \in Participants :
        /\ Has(activeTranscriptions, p)
        /\ observed.ev = "restartTimer" /\ observed.start = "ok"
        /\ observed.r # activeTranscriptions[p]
        /\ observed.r \in Running(p)

\* the cooldown timer of a replaced instance has started it while the
\* registered instance is listening
C34_TwoRunning ==
    \E p \in Participants :
        /\ Has(activeTranscriptions, p)
        /\ recognizers[activeTranscriptions[p]].phase = "listening"
        /\ observed.ev = "restartTimer" /\ observed.start = "ok"
        /\ observed.r # activeTranscriptions[p]
        /\ Running(p) = {observed.r, activeTranscriptions[p]}

(***************************************************************************)
(* Properties of the unmount of the translation hook (SpecTeardown).       *)
(***************************************************************************)
\* the Translator instances created so far that destroy() was not called on
Alive == DOMAIN created \ teardown.destroyed

\* a createTranslator call is awaited
Creating == \E i \in CallIds : calls[i].pc = "creating"

\* C31: once the translation hook has been torn down, destroy() has been
\* called on every Translator instance created during the session and the
\* cache is empty, whatever was in flight at the unmount.
C31_AllReleased ==
    [](teardown.done => (Alive = {} /\ translatorsRef = EmptyMap))

\* the cleanup releases what the cache holds: it calls destroy() on every
\* cached instance and leaves the cache empty
C31_CachedReleased ==
    [][(teardown'.done /\ ~teardown.done) =>
          /\ teardown'.destroyed = {translatorsRef[k] : k \in DOMAIN translatorsRef}
          /\ translatorsRef' = EmptyMap]_vars

\* the hook is torn down, nothing is in flight, and an instance that was
\* created is alive
C31_LeftAlive == teardown.done /\ ~Creating /\ Alive # {}

\* an instance created by a createTranslator call that settled after the
\* unmount is in the cache of the torn-down hook
C31_CachedAfterUnmount == teardown.done /\ translatorsRef # EmptyMap

(***************************************************************************)
(* Properties of the connection to the room (SpecLiveKit).                 *)
(***************************************************************************)
\* the step ends a retry delay
DelayOver == lk.pc = "waiting" /\ lk'.pc # "waiting"

\* the step after a retry delay is a new attempt: a new token fetch, with
\* the next retry count, after the delay of that retry
NewAttempt ==
    /\ lk'.pc = "fetching"
    /\ lk'.fetches = lk.fetches + 1
    /\ lk'.retryCount = lk.retryCount + 1
    /\ now' - now = retryDelays[lk'.retryCount]

\* a connect call that gave up has reported once and cleaned up
GaveUpClean ==
    lk.pc = "failed" =>
       /\ lk.onErrors = 1
       /\ ~lk.isConnecting
       /\ lk.roomRef = 0 /\ lk.room = 0

\* an attempt that gives up follows a non-retryable error or was the third
\* retry; no attempt is made beyond the third retry
GivesUpWhenDue ==
    /\ lk.retryCount <= maxConnectRetries
    /\ lk.fetches <= maxConnectRetries + 1
    /\ lk.onErrors <= 1

\* C32: every retry delay is followed by a new attempt (a new token fetch,
\* and a new room connect when the token arrives), there are at most 3
\* retries, after 1 s, 2 s and 4 s, and a connect call that gives up has
\* invoked onError exactly once, with isConnecting false and no room set.
C32_RetriedThenReported ==
    /\ [](GaveUpClean /\ GivesUpWhenDue)
    /\ [][DelayOver => NewAttempt]_vars

\* what holds: the same, for the retry delays that follow a failure of the
\* token fetch, when no room instance has been created
C32_FetchFailureRetried ==
    /\ [](GaveUpClean /\ GivesUpWhenDue)
    /\ [][(DelayOver /\ lk.roomRef = 0) => NewAttempt]_vars

\* room.connect failed with a retryable error; the retry returned at the
\* guard of connect: no new attempt, no onError, and the room instance
\* still set
C32_RetrySkipped ==
    /\ lk.pc = "skipped"
    /\ lk.delays # <<>>
    /\ lk.connects = 1
    /\ lk.roomRef # 0
    /\ lk.onErrors = 0

(***************************************************************************)
(* Properties of the control of recognition (SpecCoord).                   *)
(***************************************************************************)
\* the step is a handler run of the coordinator
CoordStep == coord'.n # coord.n

\* the handler run of the step made this call
Made(call) == \E i \in 1..Len(coord'.made) : coord'.made[i] = call

\* the step is a render whose mute effect ran
Rendered == CoordStep /\ coord'.handler = "render"

\* the handler's call reached useSTT: startLocalTranscription, or
\* stopTranscription, ran for the local participant in this step
StartReached == observed'.ev = "start"

StopReached == observed'.ev = "stop" /\ ~Has(activeTranscriptions', LocalId)

\* when the coordinator starts or stops recognition
GatedStartAndStop ==
    /\ (CoordStep /\ Made("startLocalTranscription")) =>
          /\ coord'.isConnected /\ ~coord'.isMuted
          /\ StartReached
    /\ (Rendered /\ ~coord.isMuted /\ coord'.isMuted
           /\ coord'.isConnected /\ coord'.isTranscribing) =>
          /\ Made("stopTranscription") /\ Made("stopSTT")
          /\ StopReached

\* the render finds the coordinator unmuted, connected, ready and not
\* transcribing
ShouldStart ==
    /\ Rendered
    /\ coord'.isConnected /\ ~coord'.isMuted /\ coord'.ready
    /\ ~coord'.isTranscribing

C30_NothingStarted ==
    /\ ~isSTTAvailable
    /\ coord.handler = "render"
    /\ coord.isConnected /\ ~coord.isMuted /\ coord.ready
    /\ ~coord.isTranscribing
    /\ coord.made = <<"startTranscription">>

(***************************************************************************)
(* Properties of the translation hook (SpecTranslation).                   *)
(***************************************************************************)
\* the Translator instances createTranslator has returned for this pair
CreatedFor(key) == {n \in DOMAIN created : created[n] = key}

\* C7: createTranslator returns at most one Translator instance per language
\* pair, also when invocations overlap, and every invocation that translates
\* does so with the cached instance of its pair.
C7_OneTranslatorPerPair ==
    /\ \A key \in PairKeys : Cardinality(CreatedFor(key)) <= 1
    /\ \A i \in CallIds :
          calls[i].pc = "translating"
             => calls[i].translator = Get(translatorsRef, calls[i].key, 0)

\* two Translator instances exist for one pair and an invocation translates
\* with the one that is not cached
C7_TwoInstances ==
    \E key \in PairKeys, i \in CallIds :
       /\ Cardinality(CreatedFor(key)) >= 2
       /\ calls[i].key = key
       /\ calls[i].pc = "translating"
       /\ calls[i].translator # Get(translatorsRef, key, 0)

\* C10: a translateText call makes at most 3 translator.translate attempts;
\* once it has settled it makes no further attempt; it always settles with a
\* value (null, the translation or the input text); and when it settles in
\* failure (all attempts failed, or no translator) the value is the input
\* text and translationError is set.
C10_RetryAndFallback ==
    /\ [](\A i \in CallIds :
             /\ calls[i].attempts <= 3
             /\ (calls[i].kind = "translate" /\ calls[i].pc = "done")
                   => calls[i].result \in {Null, TextTranslated, calls[i].text}
             /\ (calls[i].pc = "done" /\ calls[i].result = TextTranslated)
                   => ~calls[i].failed)
    /\ [][\A i \in CallIds :
             /\ calls[i].pc = "done" => calls'[i] = calls[i]
             /\ (calls[i].pc # "done" /\ calls'[i].pc = "done" /\ calls'[i].failed)
                   => /\ calls'[i].result = calls[i].text
                      /\ translationError' # "null"]_vars

\* a call has failed three times and settled with its input text
C10_Witness ==
    \E i \in CallIds :
       /\ calls[i].pc = "done"
       /\ calls[i].failed
       /\ calls[i].attempts = 3
       /\ calls[i].result = calls[i].text
       /\ translationError # "null"

(***************************************************************************)
(* Properties of the synthesis hook (SpecTTS).                             *)
(***************************************************************************)
\* C15: TTSService.speak resolves when the utterance ends with
\* audio-hardware, audio-busy, interrupted or canceled; useTTS.speak settles
\* by resolving whatever TTSService.speak did, so the caller's await
\* resumes; and the step in which it settles after a rejection sets
\* ttsError and clears isSpeaking.
C15_SpeakNeverRejects ==
    /\ [](\A i \in TtsCallIds :
             /\ ttsCalls[i].event \in {"audio-hardware", "audio-busy",
                                        "interrupted", "canceled"}
                   => ttsCalls[i].service = "resolved"
             /\ ttsCalls[i].hook # "rejected"
             /\ ttsCalls[i].pc = "done"
                   => ttsCalls[i].hook = "resolved" /\ ttsCalls[i].continued)
    /\ [][\A i \in TtsCallIds :
             (ttsCalls[i].pc = "awaiting" /\ ttsCalls'[i].pc = "done")
                => /\ ~isTtsSpeaking'
                   /\ ttsCalls[i].service = "rejected" => ttsError' # "null"
                   /\ ttsCalls[i].service = "resolved" => ttsError' = ttsError]_vars

\* a drain's speak() call whose utterance ended with audio-hardware has
\* resolved and the drain has continued, and another call whose utterance
\* ended with a synthesis error has resolved as well
C15_Witness ==
    \E i, j \in TtsCallIds :
       /\ ttsCalls[i].pc = "done"
       /\ ttsCalls[i].caller = "drain"
       /\ ttsCalls[i].event = "audio-hardware"
       /\ ttsCalls[i].hook = "resolved"
       /\ ttsCalls[i].continued
       /\ ttsCalls[j].pc = "done"
       /\ ttsCalls[j].event = "synthesis-failed"
       /\ ttsCalls[j].service = "rejected"
       /\ ttsCalls[j].hook = "resolved"

\* the speak() calls whose utterance has been handed to the synthesizer and
\* has not ended
UtterancesInFlight ==
    {i \in TtsCallIds : ttsCalls[i].pc = "awaiting" /\ ttsCalls[i].service = "pending"}

\* C35: in every reachable state, isSpeaking is true while the utterance of
\* some speak() call has not ended, whatever the order in which overlapping
\* calls complete.
C35_SpeakingWhileInFlight == UtterancesInFlight # {} => isTtsSpeaking

\* two calls overlapped, the earlier one was interrupted or canceled and has
\* settled, and isSpeaking is false while the later utterance is in flight
C35_ClearedByEarlierCall ==
    \E i, j \in TtsCallIds :
       /\ i < j
       /\ ttsCalls[i].pc = "done"
       /\ ttsCalls[i].event \in {"interrupted", "canceled"}
       /\ j \in UtterancesInFlight
       /\ ~isTtsSpeaking

(***************************************************************************)
(* Properties of the coordinator with TTS disabled (SpecTtsOff).           *)
(***************************************************************************)
\* C39: no step taken while the user's TTS setting is disabled issues a
\* speak() call, whether it finalizes a local record, delivers a remote
\* message or runs the tail timer of a remote queue.
C39_NoSpeakWhileDisabled ==
    [][~isTtsEnabled => spoken' = spoken /\ speakCalls' = speakCalls]_vars

\* TTS is disabled, the listening mode is tts_only, and the translation of
\* a remote message has been handed to speak()
C39_RemoteSpokenWhileDisabled ==
    /\ ~isTtsEnabled
    /\ listeningMode = "tts_only"
    /\ spoken # <<>>
    /\ \E j \in 1..Len(subtitles) :
          /\ subtitles[j].speakerName \in RemoteSpeakers
          /\ subtitles[j].translatedText = Last(spoken)

(***************************************************************************)
(* Properties of the delivery of the remote TTS queue (SpecQueue).         *)
(***************************************************************************)
\* the translated strings waiting on the queue of a remote speaker
Queued(p) == Get(pendingRemoteTtsRef, p, <<>>)

\* the step hands the head of the speaker's queue to speak()
SpeaksHead(p) ==
    /\ Queued(p) # <<>>
    /\ Queued(p)' = Tail(Queued(p))
    /\ spoken' = Append(spoken, Head(Queued(p)))

\* C38: in webrtc mode with synthesis enabled and available, a queue of a
\* remote speaker that holds a string is eventually empty unless the
\* speaker is speaking, and a string leaves it only from its head and by
\* being handed to speak().
C38_QueueEventuallySpoken ==
    /\ \A p \in QueueSpeakers :
          (Queued(p) # <<>>) ~> (Queued(p) = <<>> \/ participantSpeaking[p])
    /\ [][\A p \in QueueSpeakers :
             (Queued(p)' # Queued(p) /\ Len(Queued(p)') <= Len(Queued(p)))
                => SpeaksHead(p)]_vars

\* an earlier message of a remote speaker was spoken by the drain that
\* followed the speaker's change to silent; a later translated string is on
\* the speaker's queue, the speaker is silent, no tail timer is pending, no
\* render is due, no translation and no utterance is under way
C38_QueuedForever ==
    \E p \in QueueSpeakers :
        /\ listeningMode = "webrtc" /\ isTtsEnabled /\ isTTSAvailable
        /\ Queued(p) # <<>>
        /\ ~participantSpeaking[p]
        /\ prevSpeakingMapRef = participantSpeaking
        /\ remoteTtsTailTimerRef = {}
        /\ remoteRuns = {} /\ speakCalls = <<>>
        /\ spoken # <<>>
        /\ Len(subtitles) = 2
        /\ \A j \in 1..Len(subtitles) : subtitles[j].speakerName = p
        /\ ~ENABLED QueueRenders

(***************************************************************************)
(* Properties of the remote TTS queue (SpecRemote).                        *)
(***************************************************************************)
\* the speak() calls of queue drains that have not completed
DrainSpeaking == {i \in 1..Len(speakCalls) : speakCalls[i].by # "none"}

\* C8: at most one speak() call for a queued remote translation is under way
\* at any time, for any speakers and any speaking-to-silent transitions.
C8_QueueSequential == Cardinality(DrainSpeaking) <= 1

\* two drains of one and the same speaker are speaking at once
C8_SameSpeakerOverlap ==
    \E i, j \in DrainSpeaking : i # j /\ speakCalls[i].by = speakCalls[j].by

====
